---- MODULE Spec2Model ----
(***************************************************************************)
(* Cross Player (Obsidian plugin): the media queue kept consistent with    *)
(* the vault's create / rename / delete events, and the yt-dlp download    *)
(* jobs.  Strings are sequences of one-character strings, so that          *)
(* startsWith, includes and String.prototype.replace are computed as       *)
(* JavaScript computes them.                                               *)
(***************************************************************************)
EXTENDS Integers, Sequences, FiniteSets, Bags, TLC

(***************************************************************************)
(* Bounds of the model.                                                    *)
(***************************************************************************)
MaxIds == 3
MaxFiles == 2
MaxPending == 2
PlayFiles == 3
PlayPending == 1
MaxJobs == 1
MaxProcs == 3
MaxLines == 2
MaxScans == 2
MaxStreamLines == 2

(***************************************************************************)
(* Strings.                                                                *)
(***************************************************************************)
StartsWith(s, p) == Len(p) <= Len(s) /\ SubSeq(s, 1, Len(p)) = p

\* String.prototype.indexOf, 1-based; 0 when pat does not occur in s.
IndexOf(s, pat) ==
    LET hits == {i \in 1..(Len(s) - Len(pat) + 1) : SubSeq(s, i, i + Len(pat) - 1) = pat}
    IN  IF hits = {} THEN 0 ELSE CHOOSE i \in hits : \A j \in hits : i <= j

Includes(s, sub) == IndexOf(s, sub) # 0

\* The replacement patterns of String.prototype.replace with a string pattern:
\* $$ is a dollar sign, $& the match, $` the text before it, $' the text after.
RECURSIVE GetSubstitution(_, _, _, _)
GetSubstitution(rep, matched, before, after) ==
    IF rep = <<>> THEN <<>>
    ELSE IF rep[1] = "$" /\ Len(rep) >= 2 /\ rep[2] \in {"$", "&", "`", "'"}
         THEN (CASE rep[2] = "$" -> <<"$">>
                 [] rep[2] = "&" -> matched
                 [] rep[2] = "`" -> before
                 [] rep[2] = "'" -> after)
              \o GetSubstitution(SubSeq(rep, 3, Len(rep)), matched, before, after)
         ELSE <<rep[1]>> \o GetSubstitution(Tail(rep), matched, before, after)

\* s.replace(pat, rep) with a string pat: the first occurrence only.
JsReplace(s, pat, rep) ==
    LET i == IndexOf(s, pat)
        before == SubSeq(s, 1, i - 1)
        after == SubSeq(s, i + Len(pat), Len(s))
    IN  IF i = 0 THEN s
        ELSE before \o GetSubstitution(rep, pat, before, after) \o after

\* Position of the last occurrence of character c in s, 0 when absent.
LastIndexOf(s, c) ==
    LET hits == {i \in 1..Len(s) : s[i] = c}
    IN  IF hits = {} THEN 0 ELSE CHOOSE i \in hits : \A j \in hits : j <= i

\* TAbstractFile.name: the last segment of the path.
FileName(p) == SubSeq(p, LastIndexOf(p, "/") + 1, Len(p))

\* TFile.extension: what follows the last dot of the name.
FileExtension(p) ==
    LET n == FileName(p)
        d == LastIndexOf(n, ".")
    IN  IF d = 0 THEN <<>> ELSE SubSeq(n, d + 1, Len(n))

LowerChar(c) ==
    CASE c = "M" -> "m" [] c = "P" -> "p" [] c = "W" -> "w" [] c = "D" -> "d"
      [] c = "E" -> "e" [] c = "X" -> "x" [] c = "A" -> "a" [] c = "B" -> "b"
      [] OTHER -> c

ToLowerCase(s) == [i \in 1..Len(s) |-> LowerChar(s[i])]

(***************************************************************************)
(* The vault: the watched folder W, a folder X beside it, and the files    *)
(* the model creates, renames and deletes.                                 *)
(***************************************************************************)
WatchedRoot == <<"W">>
fA == <<"W", "/", "a", ".", "m", "p", "3">>
fDA == <<"W", "/", "D", "/", "a", ".", "m", "p", "3">>
fEA == <<"W", "/", "E", "/", "a", ".", "m", "p", "3">>
fXA == <<"X", "/", "a", ".", "m", "p", "3">>
fTxt == <<"W", "/", "a", ".", "t", "x", "t">>
fHid == <<"W", "/", ".", "a", ".", "m", "p", "3">>
fDol == <<"W", "/", "$", "$", ".", "m", "p", "3">>
fBig == <<"W", "/", "B", ".", "M", "P", "4">>
fb == <<"W", "/", "b", ".", "m", "p", "3">>
fNoExt == <<"W", "/", "a">>
dD == <<"W", "/", "D">>
dE == <<"W", "/", "E">>
dX == <<"X">>
\* Folder moves <<old, new>>; every folder of the model holds at most one file.
FolderRenames == {<<dD, dE>>, <<dE, dD>>, <<dD, dX>>, <<dX, dD>>}
FolderPaths == {dD, dE, dX}

validExtensions ==
    { <<"m", "p", "4">>, <<"w", "e", "b", "m">>, <<"o", "g", "v">>, <<"m", "p", "3">>,
      <<"w", "a", "v">>, <<"o", "g", "g">>, <<"m", "k", "v">> }

\* videoEl.currentTime.
Positions == {0, 1}

VARIABLES
    cfg,            \* the inputs of the run: file paths, probe results, sizes, item ids
    watchedFolder,  \* data.settings.watchedFolder ('' is <<>>)
    fs,             \* the files that exist in the vault
    items,          \* the MediaItem objects, by id
    queue,          \* data.queue: references (ids) to MediaItem objects
    nextId,         \* the next fresh item id
    pending,        \* bag of suspended async continuations
    currentItem,    \* mainView.currentItem (0 is null)
    last,           \* the handler that ran last, when the run tracks it
    saved,          \* the queue of the document the last saveData wrote
    flushed,        \* how many times the last handler called saveData
    downloadFolder, \* data.settings.downloadFolder ('' is <<>>)
    activeDownloads,\* the plugin's activeDownloads: references (ids) to job objects
    jobs,           \* the ActiveDownload objects, by id
    procs,          \* the yt-dlp child processes whose close event is still to come
    timers,         \* the job ids of the pending 5000 ms removal timers
    feed            \* a stdout stream on its way through the stdout handler

queueVars ==
    <<cfg, watchedFolder, fs, items, queue, nextId, pending, currentItem, last, saved, flushed>>

jobVars == <<downloadFolder, activeDownloads, jobs, procs, timers>>

NullItem ==
    [path |-> <<>>, name |-> <<>>, status |-> "none", finished |-> FALSE,
     position |-> 0, duration |-> 0, size |-> 0]

Ids == 1..MaxIds

QueueIds(q) == {q[i] : i \in 1..Len(q)}

FilesUnder(files, d) == {f \in files : StartsWith(f, d \o <<"/">>)}

(***************************************************************************)
(* Suspended continuations.  k is the kind of continuation:                *)
(*   "call"   handleRename awaiting saveData before handleFileChange(file) *)
(*   "new"    handleFileChange awaiting the probe of a file not yet queued *)
(*   "fill"   handleFileChange awaiting the probe of an item without       *)
(*            duration                                                     *)
(*   "play"   playMedia awaiting activateMainView                          *)
(*   "del"    deleteMediaItem awaiting vault.trash                         *)
(*   "del2"   deleteMediaItem awaiting saveData (id is nextItem or 0)      *)
(*   "clean"  cleanConsumedMedia awaiting vault.trash, rest still to trash *)
(*   "unread" setMediaItemAsUnread awaiting saveData                       *)
(*   "ended"  videoEl.onended awaiting updateStatus                        *)
(* path is the path of the TFile / TFolder object the continuation holds,  *)
(* id the MediaItem object it holds.  batch is 0 when handleFileChange was *)
(* called with shouldSave = true, and the scan (the Promise.all of         *)
(* scanFolder) the call belongs to when shouldSave = false.                *)
(***************************************************************************)
PRec(k, path, dir, id, cur, rest, batch) ==
    [k |-> k, path |-> path, dir |-> dir, id |-> id, cur |-> cur, rest |-> rest,
     batch |-> batch]

CallRec(path, dir) == PRec("call", path, dir, 0, FALSE, <<>>, 0)
NewRec(path, b) == PRec("new", path, FALSE, 0, FALSE, <<>>, b)
FillRec(id, b) == PRec("fill", <<>>, FALSE, id, FALSE, <<>>, b)
PlayRec(id) == PRec("play", <<>>, FALSE, id, FALSE, <<>>, 0)
DelRec(id, cur) == PRec("del", <<>>, FALSE, id, cur, <<>>, 0)
Del2Rec(id) == PRec("del2", <<>>, FALSE, id, TRUE, <<>>, 0)
CleanRec(rest) == PRec("clean", <<>>, FALSE, 0, FALSE, rest, 0)
UnreadRec == PRec("unread", <<>>, FALSE, 0, TRUE, <<>>, 0)
EndedRec == PRec("ended", <<>>, FALSE, 0, FALSE, <<>>, 0)

AddPending(P, r) == P (+) SetToBag({r})
RemovePending(P, r) == P (-) SetToBag({r})

\* The MediaItem objects some continuation still holds.
HeldIds(P) ==
    UNION {({r.id} \cup {r.rest[i] : i \in 1..Len(r.rest)}) \ {0} : r \in BagToSet(P)}

\* Objects nothing refers to any more are garbage: they are reset, so that two
\* states differ only in what the program can still observe.
Collect(it, q, P, cur) ==
    [i \in Ids |-> IF i \in QueueIds(q) \cup HeldIds(P) \cup {cur} THEN it[i] ELSE NullItem]

\* The part of the state the handlers work on.
St(it, q, P, files, cur) ==
    [items |-> it, queue |-> q, pending |-> P, fs |-> files, cur |-> cur,
     saved |-> saved, flushes |-> 0]
Cur == St(items, queue, pending, fs, currentItem)
Without(r) == St(items, queue, RemovePending(pending, r), fs, currentItem)

\* What JSON.stringify(this.data) holds of the queue: the items, in order.
Snapshot(it, q) == [i \in 1..Len(q) |-> [id |-> q[i], item |-> it[q[i]]]]

\* saveData(): the document is written as it is now.
saveData(S) == [S EXCEPT !.saved = Snapshot(S.items, S.queue), !.flushes = @ + 1]

\* The scans whose Promise.all is still waiting for a handleFileChange.
LiveBatches(P) == {r.batch : r \in BagToSet(P)} \ {0}

NewCount(P) ==
    BagCardinality([r \in {x \in BagToSet(P) : x.k \in {"call", "new"}} |-> P[r]])

\* Every action ends here: the new values of the variables, within the bounds
\* of the run.  n is the next fresh id, op the name of the handler.
CommitQueue(S0, n, op) ==
    \E S \in {S0} :
        /\ BagCardinality(S.pending) <= cfg.pend
        /\ (n - 1) + NewCount(S.pending) <= cfg.ids
        /\ Cardinality(S.fs) <= cfg.files
        /\ LiveBatches(S.pending) \subseteq 1..MaxScans
        /\ items' = Collect(S.items, S.queue, S.pending, S.cur)
        /\ queue' = S.queue
        /\ pending' = S.pending
        /\ fs' = S.fs
        /\ currentItem' = S.cur
        /\ nextId' = n
        /\ last' = IF op \in cfg.track THEN op ELSE "other"
        /\ saved' = IF cfg.persist THEN S.saved ELSE saved
        /\ flushed' = IF cfg.persist THEN S.flushes ELSE 0
        /\ UNCHANGED <<cfg, watchedFolder, feed>>

\* The handlers of the queue touch no download.
Commit(S0, n, op) == CommitQueue(S0, n, op) /\ UNCHANGED jobVars

(***************************************************************************)
(* handleFileChange                                                        *)
(***************************************************************************)
\* Array.prototype.findIndex over the queue, 1-based; 0 when nothing matches.
FindIndex(S, P(_)) ==
    LET hits == {i \in 1..Len(S.queue) : P(S.items[S.queue[i]])}
    IN  IF hits = {} THEN 0 ELSE CHOOSE i \in hits : \A j \in hits : i <= j

IsHidden(p) == StartsWith(FileName(p), <<".">>) \/ Includes(p, <<"/", ".">>)

\* The early returns of handleFileChange for a TFile.
Qualifies(p) ==
    /\ watchedFolder # <<>>
    /\ ~IsHidden(p)
    /\ StartsWith(p, watchedFolder \o <<"/">>)
    /\ ToLowerCase(FileExtension(p)) \in validExtensions

\* A handleFileChange that saves whatever shouldSave is.
saveIf_always(S, b) == saveData(S)

\* if (shouldSave) await this.saveData(); b is the scan of the call, 0 when
\* shouldSave is true.
saveIf(S, b) == IF b = 0 THEN saveData(S) ELSE S

\* handleFileChange(file, shouldSave) for a TFile, up to its first await.
\* sz is file.stat.size.
handleFileChange(S, p, sz, b) ==
    IF ~Qualifies(p) THEN S
    ELSE LET PathIs(item) == item.path = p
             ex == FindIndex(S, PathIs)
         IN  IF ex = 0
             THEN [S EXCEPT !.pending = AddPending(@, NewRec(p, b))]
             ELSE LET id == S.queue[ex]
                  IN  IF S.items[id].duration = 0
                      THEN [S EXCEPT !.pending = AddPending(@, FillRec(id, b))]
                      ELSE IF S.items[id].size = 0
                           THEN saveIf([S EXCEPT !.items[id].size = sz], b)
                           ELSE S

\* handleFileChange for a TFolder: its children in turn (a folder of the model
\* holds at most one file, so the first child is the only one).
handleFolderChange(S, d, sz) ==
    LET kids == FilesUnder(S.fs, d)
    IN  IF watchedFolder = <<>> \/ IsHidden(d) \/ kids = {} THEN S
        ELSE handleFileChange(S, CHOOSE f \in kids : TRUE, sz, 0)

\* handleFileChange(file) of a vault event: shouldSave is true.
handleAbstractFileChange(S, p, dir, sz) ==
    IF dir THEN handleFolderChange(S, p, sz) ELSE handleFileChange(S, p, sz, 0)

(***************************************************************************)
(* handleRename, handleDelete                                              *)
(***************************************************************************)
InsideWatched(path) ==
    StartsWith(path, watchedFolder \o <<"/">>) \/ path = watchedFolder

RenameMatches(item, oldPath) ==
    item.path = oldPath \/ StartsWith(item.path, oldPath \o <<"/">>)

\* The path handleRename gives an item of itemsToUpdate.
RewritePath(path, oldPath, newPath) == JsReplace(path, oldPath, newPath)

\* handleRename that keeps the items that moved out (marked completed).
RemoveMovedOut_keep(it, q) == q

\* The filter of handleRename that drops the items that moved out.
RemoveMovedOut(it, q) ==
    LET Keep(id) == InsideWatched(it[id].path)
    IN  IF watchedFolder # <<>> THEN SelectSeq(q, Keep) ELSE q

\* handleRename(file, oldPath) up to its first await; file.path is newPath.
handleRename(S, newPath, oldPath, dir, sz) ==
    LET toUpdate == {id \in QueueIds(S.queue) : RenameMatches(S.items[id], oldPath)}
        rewritten(id) == RewritePath(S.items[id].path, oldPath, newPath)
        it1 == [id \in Ids |->
                  IF id \in toUpdate
                  THEN [S.items[id] EXCEPT
                          !.path = rewritten(id),
                          !.status = IF watchedFolder # <<>> /\ ~InsideWatched(rewritten(id))
                                     THEN "completed" ELSE @]
                  ELSE S.items[id]]
    IN  IF toUpdate = {}
        THEN handleAbstractFileChange(S, newPath, dir, sz)
        ELSE saveData([S EXCEPT !.items = it1,
                                !.queue = RemoveMovedOut(it1, @),
                                !.pending = AddPending(@, CallRec(newPath, dir))])

\* handleDelete that forgets the items under a deleted folder.
handleDelete_exactOnly(S, path) ==
    LET Keep(id) == S.items[id].path # path
        S1 == [S EXCEPT !.queue = SelectSeq(@, Keep)]
    IN  IF Len(S1.queue) # Len(S.queue) THEN saveData(S1) ELSE S1

\* handleDelete(file): the filter of the queue.
handleDelete(S, path) ==
    LET Keep(id) == S.items[id].path # path /\ ~StartsWith(S.items[id].path, path \o <<"/">>)
        S1 == [S EXCEPT !.queue = SelectSeq(@, Keep)]
    IN  IF Len(S1.queue) # Len(S.queue) THEN saveData(S1) ELSE S1

\* vault.trash(file) of the file at path, when there is one: the file goes
\* and the vault's 'delete' event runs handleDelete.
Trash(S, path) == handleDelete([S EXCEPT !.fs = @ \ {path}], path)

(***************************************************************************)
(* The vault and its events.  The vault updates the path of a renamed      *)
(* TFile / TFolder object in place, so a continuation that holds the       *)
(* object reads the new path; a deleted object keeps its last path.        *)
(***************************************************************************)
MovedPath(p, oldPath, newPath) ==
    IF p = oldPath THEN newPath
    ELSE IF StartsWith(p, oldPath \o <<"/">>)
         THEN newPath \o SubSeq(p, Len(oldPath) + 1, Len(p))
         ELSE p

RECURSIVE SumCopies(_, _)
SumCopies(P, rs) ==
    IF rs = {} THEN 0
    ELSE LET r == CHOOSE x \in rs : TRUE IN P[r] + SumCopies(P, rs \ {r})

MovedRec(r, oldPath, newPath) ==
    IF r.k \in {"call", "new"} THEN [r EXCEPT !.path = MovedPath(@, oldPath, newPath)] ELSE r

MovedPending(P, oldPath, newPath) ==
    LET rs == BagToSet(P)
        ts == {MovedRec(r, oldPath, newPath) : r \in rs}
    IN  [t \in ts |-> SumCopies(P, {r \in rs : MovedRec(r, oldPath, newPath) = t})]

\* vault 'create' of a file: handleFileChange(file).
VaultCreate(p, sz) ==
    /\ p \notin fs
    /\ Commit(handleFileChange([Cur EXCEPT !.fs = @ \cup {p}], p, sz, 0), nextId, "create")

\* vault 'rename' of a file.
VaultRenameFile(oldPath, newPath, sz) ==
    /\ oldPath \in fs
    /\ newPath \notin fs
    /\ Commit(handleRename([Cur EXCEPT !.fs = (@ \ {oldPath}) \cup {newPath},
                                       !.pending = MovedPending(@, oldPath, newPath)],
                           newPath, oldPath, FALSE, sz),
              nextId, "rename")

\* vault 'rename' of a folder: one event, for the folder.
VaultRenameFolder(oldPath, newPath, sz) ==
    /\ FilesUnder(fs, oldPath) # {}
    /\ FilesUnder(fs, newPath) = {}
    /\ Commit(handleRename([Cur EXCEPT !.fs = {MovedPath(f, oldPath, newPath) : f \in @},
                                       !.pending = MovedPending(@, oldPath, newPath)],
                           newPath, oldPath, TRUE, sz),
              nextId, "renameFolder")

\* vault 'delete' of a file.
VaultDeleteFile(p) ==
    /\ p \in fs
    /\ Commit(handleDelete([Cur EXCEPT !.fs = @ \ {p}], p), nextId, "delete")

\* vault 'delete' of a folder.
VaultDeleteFolder(d) ==
    /\ FilesUnder(fs, d) # {}
    /\ Commit(handleDelete([Cur EXCEPT !.fs = @ \ FilesUnder(fs, d)], d), nextId,
              "deleteFolder")

(***************************************************************************)
(* scanFolder: handleFileChange(file, false) for every file under the      *)
(* folder, each up to its first await.                                     *)
(***************************************************************************)
RECURSIVE ScanFiles(_, _, _, _)
ScanFiles(S, todo, sz, b) ==
    IF todo = {} THEN S
    ELSE LET f == CHOOSE x \in todo : TRUE
         IN  ScanFiles(handleFileChange(S, f, sz, b), todo \ {f}, sz, b)

\* The number of a new scan: the smallest one no pending call belongs to.
FreshBatch(P) ==
    CHOOSE b \in 1..(MaxScans + 1) :
        /\ b \notin LiveBatches(P)
        /\ \A c \in 1..(MaxScans + 1) : c \notin LiveBatches(P) => b <= c

\* What follows await Promise.all(promises) in scanFolder, once no call of
\* scan b is pending: the one saveData of the scan.
scanDone(S, b) == IF b \in LiveBatches(S.pending) THEN S ELSE saveData(S)

\* A handleFileChange call has returned: when it was a call of a scan, the
\* Promise.all of the scan may resolve.
returned(S, b) == IF b = 0 THEN S ELSE scanDone(S, b)

\* scanFolder(folderPath) for a folder that exists.  A run that does not
\* observe what saveData writes does not tell the calls of a scan from the
\* calls of the vault's events.
scanFolder(S, folderPath, sz) ==
    LET b == IF cfg.persist THEN FreshBatch(S.pending) ELSE 0
    IN  returned(ScanFiles(S, FilesUnder(S.fs, folderPath), sz, b), b)

ScanFolder(sz) ==
    /\ watchedFolder # <<>>
    /\ Commit(scanFolder(Cur, watchedFolder, sz), nextId, "scan")

(***************************************************************************)
(* The continuations of handleFileChange and handleRename.                 *)
(***************************************************************************)
NewItem(path, d, sz) ==
    [path |-> path, name |-> FileName(path), status |-> "pending", finished |-> FALSE,
     position |-> 0, duration |-> d, size |-> sz]

\* What handleFileChange does when the probe of a file that was not in the
\* queue resolves: the item is pushed.
PushNewItem(S, r, id, d, sz) ==
    saveIf([S EXCEPT !.items[id] = NewItem(r.path, d, sz), !.queue = Append(@, id)],
           r.batch)

ProbeNewDone(r, d, sz) ==
    /\ r \in BagToSet(pending)
    /\ r.k = "new"
    /\ Commit(returned(PushNewItem(Without(r), r, nextId, d, sz), r.batch), nextId + 1,
              "probeNew")

\* What handleFileChange does when the probe of an item without duration
\* resolves: duration, then size when missing.
FillItem(S, r, d, sz) ==
    saveIf([S EXCEPT !.items[r.id].duration = d,
                     !.items[r.id].size = IF @ = 0 THEN sz ELSE @],
           r.batch)

ProbeFillDone(r, d, sz) ==
    /\ r \in BagToSet(pending)
    /\ r.k = "fill"
    /\ Commit(returned(FillItem(Without(r), r, d, sz), r.batch), nextId, "probeFill")

\* saveData of handleRename resolves: handleFileChange(file).
RenameResume(r, sz) ==
    /\ r \in BagToSet(pending)
    /\ r.k = "call"
    /\ Commit(handleAbstractFileChange(Without(r), r.path, r.dir, sz), nextId, "renameResume")


(***************************************************************************)
(* Playback: playMedia, updateStatus, updatePosition and the video         *)
(* element's callbacks.                                                    *)
(***************************************************************************)
IsPlaying(item) == item.status = "playing"

\* playMedia that leaves the previous playing item as it is.
playMedia_keepPrevious(S, id) ==
    [saveData([S EXCEPT
         !.items[id].finished = IF S.items[id].status = "completed" THEN TRUE ELSE @,
         !.items[id].status = "playing"])
     EXCEPT !.cur = id]

\* playMedia that demotes the previous playing item to pending whatever its
\* finished flag.
playMedia_demoteToPending(S, id) ==
    LET cp == FindIndex(S, IsPlaying)
        prev == IF cp = 0 THEN 0 ELSE S.queue[cp]
        it1 == IF prev # 0 /\ prev # id
               THEN [S.items EXCEPT ![prev].status = "pending"]
               ELSE S.items
        it2 == [it1 EXCEPT ![id].finished = IF it1[id].status = "completed" THEN TRUE ELSE @,
                           ![id].status = "playing"]
    IN  [saveData([S EXCEPT !.items = it2]) EXCEPT !.cur = id]

\* playMedia(item) after activateMainView: the previous playing item is
\* demoted, item is promoted, and the view takes item as currentItem.
playMedia(S, id) ==
    LET cp == FindIndex(S, IsPlaying)
        prev == IF cp = 0 THEN 0 ELSE S.queue[cp]
        it1 == IF prev # 0 /\ prev # id
               THEN [S.items EXCEPT ![prev].status =
                        IF S.items[prev].finished THEN "completed" ELSE "pending"]
               ELSE S.items
        it2 == [it1 EXCEPT ![id].finished = IF it1[id].status = "completed" THEN TRUE ELSE @,
                           ![id].status = "playing"]
    IN  [saveData([S EXCEPT !.items = it2]) EXCEPT !.cur = id]

\* A click on an item of the list: playMedia(item) up to activateMainView.
PlayMediaStart(id) ==
    /\ id \in QueueIds(queue)
    /\ Commit([Cur EXCEPT !.pending = AddPending(@, PlayRec(id))], nextId, "playStart")

PlayMediaResume(r) ==
    /\ r \in BagToSet(pending)
    /\ r.k = "play"
    /\ Commit(playMedia(Without(r), r.id), nextId, "playMedia")

\* An updateStatus that writes the status only.
updateStatus_statusOnly(S, id, status) ==
    IF id \in QueueIds(S.queue)
    THEN saveData([S EXCEPT !.items[id].status = status])
    ELSE S

updateStatus(S, id, status) ==
    IF id \in QueueIds(S.queue)
    THEN saveData([S EXCEPT !.items[id].status = status,
                            !.items[id].finished = IF status = "completed" THEN TRUE ELSE @])
    ELSE S

\* updatePosition that does not look the id up in the queue.
updatePosition_noFind(S, id, position) ==
    saveData([S EXCEPT !.items[id].position = position])

updatePosition(S, id, position) ==
    IF id \in QueueIds(S.queue)
    THEN saveData([S EXCEPT !.items[id].position = position])
    ELSE S

\* videoEl.ontimeupdate at time t; over95 says that more than 95% is watched.
OnTimeUpdate(t, over95) ==
    /\ currentItem # 0
    /\ LET S1 == [Cur EXCEPT !.items[currentItem].position = t]
       IN  Commit(IF items[currentItem].status # "completed" /\ over95
                  THEN updateStatus(S1, currentItem, "completed")
                  ELSE S1,
                  nextId, "timeupdate")

\* videoEl.onpause at time t.
OnPause(t) ==
    /\ currentItem # 0
    /\ Commit(updatePosition(Cur, currentItem, t), nextId, "pause")

\* playNextUnread(): playMedia, up to activateMainView, of the first pending
\* item behind the view's current item (behind the playing item when the
\* current item is not in the queue).
playNextUnread(S) ==
    LET own == {i \in 1..Len(S.queue) : S.queue[i] = S.cur}
        ci == IF S.cur # 0 /\ own # {}
              THEN CHOOSE i \in own : \A j \in own : i <= j
              ELSE FindIndex(S, IsPlaying)
        after == {i \in 1..Len(S.queue) : i > ci /\ S.items[S.queue[i]].status = "pending"}
    IN  IF after = {} THEN S
        ELSE [S EXCEPT !.pending =
                 AddPending(@, PlayRec(S.queue[CHOOSE i \in after : \A j \in after : i <= j]))]

\* videoEl.onended up to the saveData of updateStatus; with an item that is
\* not in the queue updateStatus awaits nothing and playNextUnread follows.
OnEnded ==
    /\ currentItem # 0
    /\ Commit(IF items[currentItem].status = "completed" THEN Cur
              ELSE IF currentItem \in QueueIds(queue)
                   THEN [updateStatus(Cur, currentItem, "completed") EXCEPT
                            !.pending = AddPending(@, EndedRec)]
                   ELSE playNextUnread(updateStatus(Cur, currentItem, "completed")),
              nextId, "ended")

\* updateStatus has returned to onended: playNextUnread().
EndedResume(r) ==
    /\ r \in BagToSet(pending)
    /\ r.k = "ended"
    /\ Commit(playNextUnread(Without(r)), nextId, "endedResume")

(***************************************************************************)
(* reorderItem, sortQueue                                                  *)
(***************************************************************************)
\* Array.prototype.splice(i, 1) and splice(i, 0, x), with 0-based i.
SpliceOut(q, i) == SubSeq(q, 1, i) \o SubSeq(q, i + 2, Len(q))
SpliceIn(q, i, x) ==
    LET at == IF i > Len(q) THEN Len(q)
              ELSE IF i >= 0 THEN i
              ELSE IF Len(q) + i > 0 THEN Len(q) + i ELSE 0
    IN  SubSeq(q, 1, at) \o <<x>> \o SubSeq(q, at + 1, Len(q))

\* reorderItem that checks oldIndex only.
reorderItem_oldOnly(S, oldIndex, newIndex) ==
    IF oldIndex < 0 \/ oldIndex >= Len(S.queue)
    THEN S
    ELSE saveData([S EXCEPT !.queue = SpliceIn(SpliceOut(@, oldIndex), newIndex,
                                               S.queue[oldIndex + 1])])

\* reorderItem that exchanges the items at the two indices.
reorderItem_swap(S, oldIndex, newIndex) ==
    IF oldIndex < 0 \/ oldIndex >= Len(S.queue) \/ newIndex < 0 \/ newIndex >= Len(S.queue)
    THEN S
    ELSE saveData([S EXCEPT !.queue = [@ EXCEPT ![oldIndex + 1] = S.queue[newIndex + 1],
                                                ![newIndex + 1] = S.queue[oldIndex + 1]]])

reorderItem(S, oldIndex, newIndex) ==
    IF oldIndex < 0 \/ oldIndex >= Len(S.queue) \/ newIndex < 0 \/ newIndex >= Len(S.queue)
    THEN S
    ELSE saveData([S EXCEPT !.queue = SpliceIn(SpliceOut(@, oldIndex), newIndex,
                                               S.queue[oldIndex + 1])])

\* The indices of a drag: inside the list, and outside it on both sides.
ReorderIndices == -1..(MaxIds + 2)

ReorderItem(oldIndex, newIndex) ==
    Commit(reorderItem(Cur, oldIndex, newIndex), nextId, "reorder")

\* UTF-16 code units of the characters of the model.
CharCode(c) ==
    CASE c = "$" -> 36 [] c = "." -> 46 [] c = "/" -> 47 [] c = "3" -> 51 [] c = "4" -> 52
      [] c = "A" -> 65 [] c = "B" -> 66 [] c = "D" -> 68 [] c = "E" -> 69 [] c = "M" -> 77
      [] c = "P" -> 80 [] c = "W" -> 87 [] c = "X" -> 88
      [] c = "a" -> 97 [] c = "b" -> 98 [] c = "d" -> 100 [] c = "e" -> 101
      [] c = "g" -> 103 [] c = "k" -> 107 [] c = "m" -> 109 [] c = "o" -> 111
      [] c = "p" -> 112 [] c = "t" -> 116 [] c = "v" -> 118 [] c = "w" -> 119
      [] c = "x" -> 120
      [] OTHER -> 0

\* a < b for JavaScript strings.
RECURSIVE StrLess(_, _)
StrLess(a, b) ==
    IF b = <<>> THEN FALSE
    ELSE IF a = <<>> THEN TRUE
    ELSE IF CharCode(a[1]) # CharCode(b[1]) THEN CharCode(a[1]) < CharCode(b[1])
    ELSE StrLess(Tail(a), Tail(b))

\* path.split('.').pop(): what follows the last dot of the path.
LastDotPart(path) == SubSeq(path, LastIndexOf(path, ".") + 1, Len(path))

\* The comparator of sortQueue: -1, 0 or 1.
Compare(a, b, by, order) ==
    LET less == CASE by = "type" -> StrLess(ToLowerCase(LastDotPart(a.path)),
                                             ToLowerCase(LastDotPart(b.path)))
                  [] by = "size" -> a.size < b.size
                  [] OTHER -> StrLess(ToLowerCase(a.name), ToLowerCase(b.name))
        more == CASE by = "type" -> StrLess(ToLowerCase(LastDotPart(b.path)),
                                             ToLowerCase(LastDotPart(a.path)))
                  [] by = "size" -> b.size < a.size
                  [] OTHER -> StrLess(ToLowerCase(b.name), ToLowerCase(a.name))
    IN  IF less THEN (IF order = "asc" THEN -1 ELSE 1)
        ELSE IF more THEN (IF order = "asc" THEN 1 ELSE -1)
        ELSE 0

\* Array.prototype.sort is stable: x goes behind every element that does not
\* compare greater than it.
RECURSIVE InsertSorted(_, _, _, _, _)
InsertSorted(it, sorted, x, by, order) ==
    IF sorted = <<>> THEN <<x>>
    ELSE IF Compare(it[sorted[Len(sorted)]], it[x], by, order) <= 0
         THEN Append(sorted, x)
         ELSE Append(InsertSorted(it, SubSeq(sorted, 1, Len(sorted) - 1), x, by, order),
                     sorted[Len(sorted)])

RECURSIVE StableSort(_, _, _, _)
StableSort(it, q, by, order) ==
    IF q = <<>> THEN <<>>
    ELSE InsertSorted(it, StableSort(it, SubSeq(q, 1, Len(q) - 1), by, order),
                      q[Len(q)], by, order)

sortQueue(S, by, order) ==
    saveData([S EXCEPT !.queue = StableSort(S.items, @, by, order)])

SortQueue(by, order) == Commit(sortQueue(Cur, by, order), nextId, "sort")

(***************************************************************************)
(* setMediaItemAsUnread, deleteMediaItem, cleanConsumedMedia               *)
(***************************************************************************)
\* setMediaItemAsUnread(item) up to saveData.
setMediaItemAsUnread(S, id) ==
    LET S1 == saveData([S EXCEPT !.items[id].status = "pending",
                                 !.items[id].finished = FALSE,
                                 !.items[id].position = 0])
    IN  IF S.cur = id THEN [S1 EXCEPT !.pending = AddPending(@, UnreadRec)] ELSE S1

SetMediaItemAsUnread(id) ==
    /\ id \in QueueIds(queue)
    /\ Commit(setMediaItemAsUnread(Cur, id), nextId, "unread")

\* saveData resolves for the current item: the view lets go of it.
UnreadResume(r) ==
    /\ r \in BagToSet(pending)
    /\ r.k = "unread"
    /\ Commit([Without(r) EXCEPT !.cur = 0], nextId, "unreadResume")

\* deleteMediaItem from the removal out of the queue up to saveData.
deleteFromQueue(S, id, isCurrent) ==
    LET ci == IF id \in QueueIds(S.queue)
              THEN CHOOSE i \in 1..Len(S.queue) : S.queue[i] = id ELSE 0
        after == {i \in 1..Len(S.queue) : i > ci /\ S.items[S.queue[i]].status = "pending"}
        next == IF ~isCurrent \/ after = {} THEN 0
                ELSE S.queue[CHOOSE i \in after : \A j \in after : i <= j]
        Keep(x) == x # id
        S1 == saveData([S EXCEPT !.queue = SelectSeq(@, Keep)])
    IN  IF isCurrent THEN [S1 EXCEPT !.pending = AddPending(@, Del2Rec(next))] ELSE S1

\* deleteMediaItem(item) up to its first await.
deleteMediaItem(S, id) ==
    LET isCurrent == S.cur = id
    IN  IF S.items[id].path \in S.fs
        THEN [Trash(S, S.items[id].path) EXCEPT !.pending = AddPending(@, DelRec(id, isCurrent))]
        ELSE deleteFromQueue(S, id, isCurrent)

DeleteMediaItem(id) ==
    /\ id \in QueueIds(queue)
    /\ Commit(deleteMediaItem(Cur, id), nextId, "deleteItem")

\* vault.trash resolves.
DeleteResume(r) ==
    /\ r \in BagToSet(pending)
    /\ r.k = "del"
    /\ Commit(deleteFromQueue(Without(r), r.id, r.cur), nextId, "deleteResume")

\* saveData resolves for the current item: the next item plays, or the view
\* lets go of the item.
DeleteFinish(r) ==
    /\ r \in BagToSet(pending)
    /\ r.k = "del2"
    /\ Commit(IF r.id # 0
              THEN [Without(r) EXCEPT !.pending = AddPending(@, PlayRec(r.id))]
              ELSE [Without(r) EXCEPT !.cur = 0],
              nextId, "deleteFinish")

\* The loop of cleanConsumedMedia over toRemove, up to the next await, and
\* the filter that follows the loop.
RECURSIVE cleanLoop(_, _)
cleanLoop(S, rest) ==
    IF rest = <<>>
    THEN LET Keep(id) == S.items[id].status # "completed"
         IN  saveData([S EXCEPT !.queue = SelectSeq(@, Keep)])
    ELSE IF S.items[Head(rest)].path \in S.fs
         THEN [Trash(S, S.items[Head(rest)].path) EXCEPT
                  !.pending = AddPending(@, CleanRec(Tail(rest)))]
         ELSE cleanLoop(S, Tail(rest))

cleanConsumedMedia(S) ==
    LET Completed(id) == S.items[id].status = "completed"
        toRemove == SelectSeq(S.queue, Completed)
    IN  IF toRemove = <<>> THEN S ELSE cleanLoop(S, toRemove)

CleanConsumedMedia == Commit(cleanConsumedMedia(Cur), nextId, "clean")

CleanResume(r) ==
    /\ r \in BagToSet(pending)
    /\ r.k = "clean"
    /\ Commit(cleanLoop(Without(r), r.rest), nextId, "cleanResume")


(***************************************************************************)
(* The runs: what the vault, the probe and the user do in a run, and the   *)
(* queue loadData finds at startup.                                        *)
(***************************************************************************)
(***************************************************************************)
(* Downloads: startDownload and the handlers of the child process,         *)
(* pauseDownload, resumeDownload, cancelDownload and the list view's       *)
(* buttons.                                                                *)
(***************************************************************************)
JobIds == 1..MaxJobs
ProcIds == 1..MaxProcs

NullJob ==
    [name |-> "", progress |-> "", speed |-> "", eta |-> "", status |-> "none",
     error |-> "", type |-> "", childProcess |-> 0]

NullProc == [job |-> 0, running |-> FALSE, killed |-> FALSE]

ActiveIds(a) == {a[i] : i \in 1..Len(a)}

\* The state of the downloads a handler works on.
Dl(a, J, P, T) == [active |-> a, jobs |-> J, procs |-> P, timers |-> T]
CurDl == Dl(activeDownloads, jobs, procs, timers)

\* Job objects that no list, process or timer refers to are gone.
CollectJobs(D) ==
    [j \in JobIds |->
        IF \/ j \in ActiveIds(D.active)
           \/ \E p \in ProcIds : D.procs[p].running /\ D.procs[p].job = j
        THEN D.jobs[j] ELSE NullJob]

FreeJobs ==
    {j \in JobIds : /\ j \notin ActiveIds(activeDownloads)
                    /\ j \notin timers
                    /\ \A p \in ProcIds : ~(procs[p].running /\ procs[p].job = j)}
FreeProcs == {p \in ProcIds : ~procs[p].running}

CommitJobs(D0) ==
    \E D \in {D0} :
        /\ activeDownloads' = D.active
        /\ jobs' = CollectJobs(D)
        /\ procs' = D.procs
        /\ timers' = D.timers
        /\ UNCHANGED downloadFolder

\* The lines yt-dlp writes on stdout.  A progress line carries the percentage
\* in tenths (50.0% is 500), the speed and the ETA.
Line(tag, dest, percent, speed, eta, post) ==
    [download |-> tag, destination |-> dest, percent |-> percent, speed |-> speed,
     eta |-> eta, post |-> post]
ProgressLine == Line(TRUE, FALSE, 500, "1MiB/s", "00:01", FALSE)
DestinationLine == Line(TRUE, TRUE, -1, "", "", FALSE)
MergerLine == Line(FALSE, FALSE, -1, "", "", TRUE)
OtherLine == Line(FALSE, FALSE, -1, "", "", FALSE)
Lines == {ProgressLine, DestinationLine, MergerLine, OtherLine}
Chunks == UNION {[1..n -> Lines] : n \in 1..MaxLines}

\* percent.toFixed(1) + '%', percent in tenths.
ToFixed1(t) == ToString(t \div 10) \o "." \o ToString(t % 10) \o "%"

\* The stdout handler on one line.
stdoutLine(job, line) ==
    LET j1 == IF line.download
              THEN [job EXCEPT
                      !.progress = IF line.percent >= 0
                                   THEN ToFixed1(IF job.type = "audio"
                                                 THEN (line.percent * 9 + 5) \div 10
                                                 ELSE line.percent)
                                   ELSE @,
                      !.speed = IF line.speed # "" THEN line.speed ELSE @,
                      !.eta = IF line.eta # "" THEN line.eta ELSE @]
              ELSE job
        j2 == IF line.destination THEN [j1 EXCEPT !.name = "title.mp4"] ELSE j1
    IN  IF line.post THEN [j2 EXCEPT !.status = "converting", !.progress = "95%"] ELSE j2

RECURSIVE stdoutData(_, _)
stdoutData(job, lines) ==
    IF lines = <<>> THEN job ELSE stdoutData(stdoutLine(job, Head(lines)), Tail(lines))

\* A stderr handler that reports the fatal signatures of a downloading job only.
stderrData_whenDownloading(job, fatal) ==
    IF fatal /\ job.status = "downloading"
    THEN [job EXCEPT !.error = "Update yt-dlp!", !.status = "error"]
    ELSE job

\* A stderr handler that reports every chunk as the fatal error.
stderrData_everyChunk(job, fatal) ==
    [job EXCEPT !.error = "Update yt-dlp!", !.status = "error"]

\* The stderr handler on one chunk.
stderrData(job, fatal) ==
    IF fatal THEN [job EXCEPT !.error = "Update yt-dlp!", !.status = "error"] ELSE job

\* The 'error' handler.
childError(job) == [job EXCEPT !.status = "error", !.error = "err.message"]

\* The codes of the 'close' event: success, two failures, and a signal.
ExitCodes == {"0", "1", "2", "null"}

TargetFolder == IF downloadFolder # <<>> THEN downloadFolder ELSE watchedFolder

\* A 'close' handler that leaves the progress of a completed job.
childClose_keepProgress(job, code) ==
    LET j1 == IF code = "0"
              THEN [job EXCEPT !.status = "completed"]
              ELSE IF job.status # "paused" /\ code # "null"
                   THEN [job EXCEPT !.status = "error", !.error = "Exit code " \o code]
                   ELSE job
    IN  [j1 EXCEPT !.childProcess = 0]

\* A 'close' handler that reports the exit code of a downloading job only.
childClose_errorWhenDownloading(job, code) ==
    LET j1 == IF code = "0"
              THEN [job EXCEPT !.status = "completed", !.progress = "100%"]
              ELSE IF job.status = "downloading" /\ code # "null"
                   THEN [job EXCEPT !.status = "error", !.error = "Exit code " \o code]
                   ELSE job
    IN  [j1 EXCEPT !.childProcess = 0]

\* The 'close' handler up to the timer; code is the exit code, "null" after a
\* signal.
childClose(job, code) ==
    LET j1 == IF code = "0"
              THEN [job EXCEPT !.status = "completed", !.progress = "100%"]
              ELSE IF job.status # "paused" /\ code # "null"
                   THEN [job EXCEPT !.status = "error", !.error = "Exit code " \o code]
                   ELSE job
    IN  [j1 EXCEPT !.childProcess = 0]

\* startDownload that pushes a job object on a resume too.
startDownload_pushAgain(D, j, type, p, throws, existing) ==
    LET job0 == IF existing
                THEN [D.jobs[j] EXCEPT !.status = "downloading", !.error = ""]
                ELSE [name |-> "link", progress |-> "0%", speed |-> "0", eta |-> "?",
                      status |-> "downloading", error |-> "", type |-> type,
                      childProcess |-> 0]
        act == Append(D.active, j)
    IN  IF throws
        THEN [D EXCEPT !.active = act,
                       !.jobs[j] = [job0 EXCEPT !.status = "error", !.error = "Failed to start"]]
        ELSE [D EXCEPT !.active = act,
                       !.jobs[j] = [job0 EXCEPT !.childProcess = p],
                       !.procs[p] = [job |-> j, running |-> TRUE, killed |-> FALSE]]

\* startDownload: the job object (new, or the existing one on a resume), then
\* spawn and the handle, or the catch branch when spawn throws.
startDownload(D, j, type, p, throws, existing) ==
    LET job0 == IF existing
                THEN [D.jobs[j] EXCEPT !.status = "downloading", !.error = ""]
                ELSE [name |-> "link", progress |-> "0%", speed |-> "0", eta |-> "?",
                      status |-> "downloading", error |-> "", type |-> type,
                      childProcess |-> 0]
        act == IF existing THEN D.active ELSE Append(D.active, j)
    IN  IF throws
        THEN [D EXCEPT !.active = act,
                       !.jobs[j] = [job0 EXCEPT !.status = "error", !.error = "Failed to start"]]
        ELSE [D EXCEPT !.active = act,
                       !.jobs[j] = [job0 EXCEPT !.childProcess = p],
                       !.procs[p] = [job |-> j, running |-> TRUE, killed |-> FALSE]]

\* downloadVideos with one link.
DownloadVideos(type, throws) ==
    /\ cfg.desktop
    /\ TargetFolder # <<>>
    /\ FreeJobs # {}
    /\ FreeProcs # {}
    /\ LET j == CHOOSE x \in FreeJobs : \A y \in FreeJobs : x <= y
           p == CHOOSE x \in FreeProcs : \A y \in FreeProcs : x <= y
       IN  CommitJobs(startDownload(CurDl, j, type, p, throws, FALSE))
    /\ CommitQueue(Cur, nextId, "download")

Kill(P, p) == IF p # 0 /\ P[p].running THEN [P EXCEPT ![p].killed = TRUE] ELSE P

pauseDownload(D, j) ==
    IF j \in ActiveIds(D.active) /\ D.jobs[j].childProcess # 0
    THEN [D EXCEPT !.jobs[j].status = "paused",
                   !.procs = Kill(@, D.jobs[j].childProcess)]
    ELSE D

\* The Pause button, which the list view shows for a downloading job.
PauseClick(j) ==
    /\ j \in ActiveIds(activeDownloads)
    /\ jobs[j].status = "downloading"
    /\ CommitJobs(pauseDownload(CurDl, j))
    /\ CommitQueue(Cur, nextId, "pause")

resumeDownload(D, j, p, throws) ==
    IF cfg.desktop /\ j \in ActiveIds(D.active)
    THEN startDownload(D, j, D.jobs[j].type, p, throws, TRUE)
    ELSE D

\* The Resume button, which the list view shows for a paused job.
ResumeClick(j, throws) ==
    /\ j \in ActiveIds(activeDownloads)
    /\ jobs[j].status = "paused"
    /\ FreeProcs # {}
    /\ LET p == CHOOSE x \in FreeProcs : \A y \in FreeProcs : x <= y
       IN  CommitJobs(resumeDownload(CurDl, j, p, throws))
    /\ CommitQueue(Cur, nextId, "resume")

\* cancelDownload that sends no kill.
cancelDownload_noKill(D, j) ==
    IF j \in ActiveIds(D.active)
    THEN [D EXCEPT !.active = SelectSeq(@, LAMBDA x : x # j)]
    ELSE D

cancelDownload(D, j) ==
    IF j \in ActiveIds(D.active)
    THEN [D EXCEPT !.procs = Kill(@, D.jobs[j].childProcess),
                   !.active = SelectSeq(@, LAMBDA x : x # j)]
    ELSE D

\* The Cancel button, which the list view shows for every job.
CancelClick(j) ==
    /\ j \in ActiveIds(activeDownloads)
    /\ CommitJobs(cancelDownload(CurDl, j))
    /\ CommitQueue(Cur, nextId, "cancel")

Stdout(p, chunk) ==
    /\ procs[p].running
    /\ CommitJobs([CurDl EXCEPT !.jobs[procs[p].job] = stdoutData(@, chunk)])
    /\ CommitQueue(Cur, nextId, "stdout")

Stderr(p, fatal) ==
    /\ procs[p].running
    /\ CommitJobs([CurDl EXCEPT !.jobs[procs[p].job] = stderrData(@, fatal)])
    /\ CommitQueue(Cur, nextId, "stderr")

ChildError(p) ==
    /\ procs[p].running
    /\ CommitJobs([CurDl EXCEPT !.jobs[procs[p].job] = childError(@)])
    /\ CommitQueue(Cur, nextId, "error")

\* A 'close' event that sets no timer.
Close_noTimer(p, code, sz) ==
    /\ procs[p].running
    /\ LET j == procs[p].job
           job == childClose(jobs[j], code)
       IN  CommitJobs([CurDl EXCEPT !.jobs[j] = job, !.procs[p] = NullProc])
    /\ IF code = "0" /\ TargetFolder = watchedFolder
       THEN CommitQueue(scanFolder(Cur, watchedFolder, sz), nextId, "scan")
       ELSE CommitQueue(Cur, nextId, "close")

\* The 'close' event: the handler, the rescan of the watched folder after a
\* download into it, and the timer of a completed job.
Close(p, code, sz) ==
    /\ procs[p].running
    /\ LET j == procs[p].job
           job == childClose(jobs[j], code)
       IN  CommitJobs([CurDl EXCEPT !.jobs[j] = job,
                                    !.procs[p] = NullProc,
                                    !.timers = IF job.status = "completed"
                                               THEN @ \cup {j} ELSE @])
    /\ IF code = "0" /\ TargetFolder = watchedFolder
       THEN CommitQueue(scanFolder(Cur, watchedFolder, sz), nextId, "scan")
       ELSE CommitQueue(Cur, nextId, "close")

\* The timer of a completed job fires.
TimerFire(j) ==
    /\ j \in timers
    /\ CommitJobs([CurDl EXCEPT !.active = SelectSeq(@, LAMBDA x : x # j),
                                !.timers = @ \ {j}])
    /\ CommitQueue(Cur, nextId, "timer")

\* A button of the list view that was rendered for a job which has left the
\* active set since: the call carries an id that is not in activeDownloads.
PauseUnknown(j) ==
    /\ j \notin ActiveIds(activeDownloads)
    /\ CommitJobs(pauseDownload(CurDl, j))
    /\ CommitQueue(Cur, nextId, "pauseUnknown")

ResumeUnknown(j, throws) ==
    /\ j \notin ActiveIds(activeDownloads)
    /\ FreeProcs # {}
    /\ LET p == CHOOSE x \in FreeProcs : \A y \in FreeProcs : x <= y
       IN  CommitJobs(resumeDownload(CurDl, j, p, throws))
    /\ CommitQueue(Cur, nextId, "resumeUnknown")

CancelUnknown(j) ==
    /\ j \notin ActiveIds(activeDownloads)
    /\ CommitJobs(cancelDownload(CurDl, j))
    /\ CommitQueue(Cur, nextId, "cancelUnknown")

\* A run: the paths of the vault's events, the bounds on files, item ids and
\* pending calls, the results of the probe and of stat, the queue loadData
\* finds (preload, with the sizes psize) and the files of the vault at
\* startup, the handlers `last` records, whether the run observes what
\* saveData writes, Platform.isDesktop, and what the user of SpecStore does.
Run(paths, files, durs, sizes, ids, pend, preload, track) ==
    [paths |-> paths, files |-> files, durs |-> durs, sizes |-> sizes, ids |-> ids,
     pend |-> pend,
     preload |-> preload, track |-> track,
     psize |-> [i \in 1..Len(preload) |-> 5],
     vault |-> {preload[i] : i \in 1..Len(preload)},
     persist |-> FALSE, desktop |-> TRUE, user |-> {}]

FsTracked == {"rename", "renameFolder", "delete", "deleteFolder"}

Runs ==
    { Run({fA, fDol, fTxt}, MaxFiles, {0, 2}, {5}, MaxIds, MaxPending, <<>>, FsTracked),
      Run({fA, fDA, fEA, fXA}, MaxFiles, {2}, {5}, MaxIds, MaxPending, <<>>, FsTracked),
      Run({fA, fHid}, MaxFiles, {0, 2}, {0, 5}, 2, MaxPending, <<>>, FsTracked) }

PlayRuns ==
    { Run({fA, fDol, fXA}, MaxFiles, {2}, {5}, MaxIds, PlayPending, <<fA, fDol>>, {"playMedia"}),
      Run({fA, fDol, fDA}, PlayFiles, {2}, {5}, MaxIds, PlayPending, <<fA, fDol, fDA>>,
          {"playMedia"}) }

\* Runs on a device without downloads (Platform.isDesktop is false) that
\* observe what saveData writes: a queue to sort and reorder, a queue to
\* sort with a file that loses its extension, a playback
\* with marks and deletions, a playback with a file that moves out of the
\* watched folder, and a first scan of a folder whose files are not in the
\* queue yet.
StoreRuns ==
    { [Run({fA}, PlayFiles, {2}, {5}, MaxIds, 0, <<fBig, fA, fb>>, {"reorder", "sort"})
          EXCEPT !.psize = <<10, 0, 5>>, !.persist = TRUE, !.desktop = FALSE,
                 !.user = {"edit"}],
      [Run({fA, fNoExt}, MaxFiles, {2}, {5}, MaxIds, 1, <<fBig, fA>>, {"sort"})
          EXCEPT !.persist = TRUE, !.desktop = FALSE, !.user = {"edit"}],
      [Run({fA}, MaxFiles, {2}, {5}, 2, 1, <<fA, fb>>,
           {"ended", "playMedia", "pause", "timeupdate"})
          EXCEPT !.persist = TRUE, !.desktop = FALSE, !.user = {"play", "keep"}],
      [Run({fA, fXA}, 1, {2}, {5}, 2, MaxPending, <<fA>>, {"playMedia"})
          EXCEPT !.persist = TRUE, !.desktop = FALSE, !.user = {"play"}],
      [Run({fA}, MaxFiles, {0, 2}, {5}, MaxIds, MaxPending, <<>>,
           {"scan", "probeNew", "probeFill"})
          EXCEPT !.vault = {fA, fb}, !.persist = TRUE, !.desktop = FALSE] }

\* The run of SpecJobs on the desktop, with no event of the vault.
DesktopRuns ==
    { Run({}, 1, {2}, {5}, 1, 0, <<fA>>,
          {"scan", "timer", "pauseUnknown", "resumeUnknown", "cancelUnknown"}) }

InitRun(runs) ==
    /\ cfg \in runs
    /\ fs = cfg.vault
    /\ items = [i \in Ids |-> IF i <= Len(cfg.preload)
                              THEN NewItem(cfg.preload[i], 2, cfg.psize[i]) ELSE NullItem]
    /\ queue = [i \in 1..Len(cfg.preload) |-> i]
    /\ nextId = Len(cfg.preload) + 1
    /\ pending = EmptyBag
    /\ currentItem = 0
    /\ last = "init"
    /\ saved = IF cfg.persist THEN Snapshot(items, queue) ELSE <<>>
    /\ flushed = 0

JobRuns == { Run({fA}, 1, {2}, {5}, 1, 1, <<fA>>, {"scan", "timer", "stderr"}) }

NoDownloads ==
    /\ activeDownloads = <<>>
    /\ jobs = [j \in JobIds |-> NullJob]
    /\ procs = [p \in ProcIds |-> NullProc]
    /\ timers = {}

InitDownloads == NoDownloads /\ feed = <<>>

Init ==
    /\ watchedFolder \in {WatchedRoot, <<>>}
    /\ InitRun(Runs)
    /\ downloadFolder = <<>>
    /\ InitDownloads

InitPlay ==
    /\ watchedFolder = WatchedRoot
    /\ InitRun(PlayRuns)
    /\ downloadFolder = <<>>
    /\ InitDownloads

InitJobs ==
    /\ watchedFolder = WatchedRoot
    /\ InitRun(JobRuns)
    /\ downloadFolder \in {<<>>, <<"X">>, WatchedRoot}
    /\ InitDownloads

InitStore ==
    /\ watchedFolder = WatchedRoot
    /\ InitRun(StoreRuns)
    /\ downloadFolder = <<>>
    /\ InitDownloads

InitOps ==
    /\ watchedFolder = WatchedRoot
    /\ InitRun(StoreRuns \cup DesktopRuns)
    /\ downloadFolder = <<>>
    /\ InitDownloads

VaultEvent ==
    \/ \E p \in cfg.paths, sz \in cfg.sizes : VaultCreate(p, sz)
    \/ \E p \in cfg.paths, q \in cfg.paths, sz \in cfg.sizes : VaultRenameFile(p, q, sz)
    \/ \E m \in FolderRenames, sz \in cfg.sizes : VaultRenameFolder(m[1], m[2], sz)
    \/ \E p \in cfg.paths : VaultDeleteFile(p)
    \/ \E d \in FolderPaths : VaultDeleteFolder(d)

Reconcile ==
    \/ \E sz \in cfg.sizes : ScanFolder(sz)
    \/ \E r \in BagToSet(pending), d \in cfg.durs, sz \in cfg.sizes : ProbeNewDone(r, d, sz)
    \/ \E r \in BagToSet(pending), d \in cfg.durs, sz \in cfg.sizes : ProbeFillDone(r, d, sz)
    \/ \E r \in BagToSet(pending), sz \in cfg.sizes : RenameResume(r, sz)

Playback ==
    \/ \E id \in Ids : PlayMediaStart(id)
    \/ \E r \in BagToSet(pending) : PlayMediaResume(r)
    \/ \E t \in Positions, over95 \in BOOLEAN : OnTimeUpdate(t, over95)
    \/ \E t \in Positions : OnPause(t)
    \/ \E o \in -1..Len(queue), n \in -1..Len(queue) : ReorderItem(o, n)
    \/ \E by \in {"name", "type", "size"}, order \in {"asc", "desc"} : SortQueue(by, order)
    \/ \E id \in Ids : SetMediaItemAsUnread(id)
    \/ \E r \in BagToSet(pending) : UnreadResume(r)
    \/ \E id \in Ids : DeleteMediaItem(id)
    \/ \E r \in BagToSet(pending) : DeleteResume(r)
    \/ \E r \in BagToSet(pending) : DeleteFinish(r)
    \/ CleanConsumedMedia
    \/ \E r \in BagToSet(pending) : CleanResume(r)

ReconcilePlay ==
    \/ \E sz \in cfg.sizes : ScanFolder(sz)
    \/ \E r \in BagToSet(pending), d \in cfg.durs, sz \in cfg.sizes : ProbeNewDone(r, d, sz)
    \/ \E r \in BagToSet(pending), sz \in cfg.sizes : RenameResume(r, sz)

Ended ==
    \/ OnEnded
    \/ \E r \in BagToSet(pending) : EndedResume(r)

UnknownJob ==
    \/ \E j \in JobIds : PauseUnknown(j)
    \/ \E j \in JobIds, throws \in BOOLEAN : ResumeUnknown(j, throws)
    \/ \E j \in JobIds : CancelUnknown(j)

Next == VaultEvent \/ Reconcile

\* Every item of a playback run has its duration: no probe of a queued item.
NextPlay == VaultEvent \/ ReconcilePlay \/ Playback

NextJobs ==
    \/ \E type \in {"video", "audio"}, throws \in BOOLEAN : DownloadVideos(type, throws)
    \/ \E p \in ProcIds, chunk \in Chunks : Stdout(p, chunk)
    \/ \E p \in ProcIds, fatal \in BOOLEAN : Stderr(p, fatal)
    \/ \E p \in ProcIds : ChildError(p)
    \/ \E p \in ProcIds, code \in ExitCodes, sz \in cfg.sizes : Close(p, code, sz)
    \/ \E j \in JobIds : PauseClick(j)
    \/ \E j \in JobIds, throws \in BOOLEAN : ResumeClick(j, throws)
    \/ \E j \in JobIds : CancelClick(j)
    \/ \E j \in JobIds : TimerFire(j)

Playing ==
    \/ \E id \in Ids : PlayMediaStart(id)
    \/ \E r \in BagToSet(pending) : PlayMediaResume(r)
    \/ \E t \in Positions, over95 \in BOOLEAN : OnTimeUpdate(t, over95)
    \/ \E t \in Positions : OnPause(t)
    \/ Ended

Editing ==
    \/ \E o \in ReorderIndices, n \in ReorderIndices : ReorderItem(o, n)
    \/ \E by \in {"name", "type", "size"}, order \in {"asc", "desc"} : SortQueue(by, order)

Keeping ==
    \/ \E id \in Ids : SetMediaItemAsUnread(id)
    \/ \E r \in BagToSet(pending) : UnreadResume(r)
    \/ \E id \in Ids : DeleteMediaItem(id)
    \/ \E r \in BagToSet(pending) : DeleteResume(r)
    \/ \E r \in BagToSet(pending) : DeleteFinish(r)
    \/ CleanConsumedMedia
    \/ \E r \in BagToSet(pending) : CleanResume(r)

\* The queue with its playback, the vault and the scans; the user does what
\* the run says.
NextStore ==
    \/ VaultEvent
    \/ Reconcile
    \/ "play" \in cfg.user /\ Playing
    \/ "edit" \in cfg.user /\ Editing
    \/ "keep" \in cfg.user /\ Keeping

\* The same with the downloads and the calls for a job that is gone.
NextOps == NextStore \/ NextJobs \/ UnknownJob

(***************************************************************************)
(* The stdout handler on the text of a chunk: data.toString().split('\n'), *)
(* and for each piece the tests and the regular expressions of the         *)
(* handler, computed on the characters.                                    *)
(***************************************************************************)
tagDownload == <<"[", "d", "o", "w", "n", "l", "o", "a", "d", "]">>
tagDestination == <<"[", "d", "o", "w", "n", "l", "o", "a", "d", "]", " ", "D", "e", "s", "t", "i", "n", "a", "t", "i", "o", "n", ":">>
wordDestination == <<"D", "e", "s", "t", "i", "n", "a", "t", "i", "o", "n", ":">>
tagExtractAudio == <<"[", "E", "x", "t", "r", "a", "c", "t", "A", "u", "d", "i", "o", "]">>
tagFfmpeg == <<"[", "f", "f", "m", "p", "e", "g", "]">>
tagMerger == <<"[", "M", "e", "r", "g", "e", "r", "]">>

IsDigit(c) == c \in {"0", "1", "2", "3", "4", "5", "6", "7", "8", "9"}
\* \s inside a line.
IsSpace(c) == c \in {" ", "\t", "\r"}
NotSpace(c) == ~IsSpace(c)

DigitVal(c) ==
    CASE c = "0" -> 0 [] c = "1" -> 1 [] c = "2" -> 2 [] c = "3" -> 3 [] c = "4" -> 4
      [] c = "5" -> 5 [] c = "6" -> 6 [] c = "7" -> 7 [] c = "8" -> 8 [] c = "9" -> 9

DigitChar(d) == <<"0", "1", "2", "3", "4", "5", "6", "7", "8", "9">>[d + 1]

RECURSIVE DigitsOf(_)
DigitsOf(n) == IF n < 10 THEN <<DigitChar(n)>> ELSE Append(DigitsOf(n \div 10), DigitChar(n % 10))

RECURSIVE NumVal(_)
NumVal(ds) ==
    IF ds = <<>> THEN 0 ELSE NumVal(SubSeq(ds, 1, Len(ds) - 1)) * 10 + DigitVal(ds[Len(ds)])

\* The character classes of the handler's regular expressions: \d, \s, [^\s].
InClass(c, class) ==
    CASE class = "d" -> IsDigit(c)
      [] class = "s" -> IsSpace(c)
      [] class = "S" -> NotSpace(c)

\* The end of the longest run of characters of the class that starts at i;
\* i - 1 when s[i] is not one.
RunEnd(s, i, class) ==
    LET ends == {k \in i..Len(s) : \A m \in i..k : InClass(s[m], class)}
    IN  IF ends = {} THEN i - 1 ELSE CHOOSE k \in ends : \A m \in ends : m <= k

\* line.match(/(\d+\.\d+)%/): the group of the leftmost match, <<>> for null.
MatchPercent(s) ==
    LET End(i) == LET a == RunEnd(s, i, "d")
                      b == RunEnd(s, a + 2, "d")
                  IN  IF /\ a >= i /\ a + 1 <= Len(s) /\ s[a + 1] = "."
                         /\ b >= a + 2 /\ b + 1 <= Len(s) /\ s[b + 1] = "%"
                      THEN b ELSE 0
        starts == {i \in 1..Len(s) : End(i) # 0}
    IN  IF starts = {} THEN <<>>
        ELSE LET i == CHOOSE x \in starts : \A y \in starts : x <= y
             IN  SubSeq(s, i, End(i))

\* line.match(/word\s+([^\s]+)/): the group of the leftmost match, <<>> for
\* null.
MatchWord(s, word) ==
    LET From(i) == LET w == RunEnd(s, i + Len(word), "s")
                   IN  IF /\ i + Len(word) - 1 <= Len(s)
                          /\ SubSeq(s, i, i + Len(word) - 1) = word
                          /\ w >= i + Len(word) /\ w + 1 <= Len(s)
                       THEN w + 1 ELSE 0
        starts == {i \in 1..Len(s) : From(i) # 0}
    IN  IF starts = {} THEN <<>>
        ELSE LET i == CHOOSE x \in starts : \A y \in starts : x <= y
             IN  SubSeq(s, From(i), RunEnd(s, From(i), "S"))

\* parseFloat of the group of MatchPercent, in tenths (the percentages of
\* the streams have one decimal; a second one is rounded).
ParseTenths(num) ==
    LET dot == IndexOf(num, <<".">>)
        frac == SubSeq(num, dot + 1, Len(num))
    IN  NumVal(SubSeq(num, 1, dot - 1)) * 10 + DigitVal(frac[1])
        + (IF Len(frac) >= 2 /\ DigitVal(frac[2]) >= 5 THEN 1 ELSE 0)

\* percent.toFixed(1) + '%' on characters, percent in tenths.
Fixed1Text(t) == DigitsOf(t \div 10) \o <<".", DigitChar(t % 10), "%">>

\* String.prototype.trim.
Trim(s) ==
    LET keep == {i \in 1..Len(s) : NotSpace(s[i])}
    IN  IF keep = {} THEN <<>>
        ELSE SubSeq(s, CHOOSE i \in keep : \A j \in keep : i <= j,
                       CHOOSE i \in keep : \A j \in keep : j <= i)

\* line.split('Destination:')[1].trim()
DestinationName(line) ==
    LET i == IndexOf(line, wordDestination)
        rest == SubSeq(line, i + Len(wordDestination), Len(line))
        j == IndexOf(rest, wordDestination)
    IN  Trim(IF j = 0 THEN rest ELSE SubSeq(rest, 1, j - 1))

\* data.toString().split('\n')
RECURSIVE SplitLines(_)
SplitLines(text) ==
    LET i == IndexOf(text, <<"\n">>)
    IN  IF i = 0 THEN <<text>>
        ELSE <<SubSeq(text, 1, i - 1)>> \o SplitLines(SubSeq(text, i + 1, Len(text)))

\* The body of the loop of the stdout handler, on the characters of a line.
stdoutTextLine(job, line) ==
    LET percentMatch == MatchPercent(line)
        speedMatch == MatchWord(line, <<"a", "t">>)
        etaMatch == MatchWord(line, <<"E", "T", "A">>)
        percent == ParseTenths(percentMatch)
        j1 == IF Includes(line, tagDownload)
              THEN [job EXCEPT
                      !.progress = IF percentMatch # <<>>
                                   THEN Fixed1Text(IF job.type = "audio"
                                                   THEN (percent * 9 + 5) \div 10
                                                   ELSE percent)
                                   ELSE @,
                      !.speed = IF speedMatch # <<>> THEN speedMatch ELSE @,
                      !.eta = IF etaMatch # <<>> THEN etaMatch ELSE @]
              ELSE job
        j2 == IF Includes(line, tagDestination)
              THEN [j1 EXCEPT !.name = DestinationName(line)] ELSE j1
    IN  IF \/ Includes(line, tagExtractAudio) \/ Includes(line, tagFfmpeg)
           \/ Includes(line, tagMerger)
        THEN [j2 EXCEPT !.status = "converting", !.progress = <<"9", "5", "%">>]
        ELSE j2

RECURSIVE stdoutLines(_, _)
stdoutLines(job, lines) ==
    IF lines = <<>> THEN job ELSE stdoutLines(stdoutTextLine(job, Head(lines)), Tail(lines))

\* child.stdout.on('data'): the handler on one chunk of text.
stdoutText(job, data) == stdoutLines(job, SplitLines(data))

\* The job object startDownload makes, with its texts as characters.
TextJob(type) ==
    [name |-> <<"l", "i", "n", "k">>, progress |-> <<"0", "%">>, speed |-> <<"0">>,
     eta |-> <<"?">>, status |-> "downloading", type |-> type]

\* Lines of yt-dlp: progress, destination, merger.
ProgressText == <<"[", "d", "o", "w", "n", "l", "o", "a", "d", "]", " ", " ", "5", ".", "0", "%", " ", "o", "f", " ", "1", "M", "i", "B", " ", "a", "t", " ", "2", "M", "i", "B", "/", "s", " ", "E", "T", "A", " ", "0", "0", ":", "0", "3">>
DestinationText == <<"[", "d", "o", "w", "n", "l", "o", "a", "d", "]", " ", "D", "e", "s", "t", "i", "n", "a", "t", "i", "o", "n", ":", " ", "a", ".", "m", "p", "4">>
MergerText == <<"[", "M", "e", "r", "g", "e", "r", "]", " ", "M", "e", "r", "g", "i", "n", "g">>
StreamLines == {ProgressText, DestinationText, MergerText}

RECURSIVE JoinLines(_)
JoinLines(ls) == IF ls = <<>> THEN <<>> ELSE Head(ls) \o <<"\n">> \o JoinLines(Tail(ls))

\* The streams: up to MaxStreamLines lines, each ended by a newline.
Streams == {JoinLines(ls) : ls \in UNION {[1..n -> StreamLines] : n \in 1..MaxStreamLines}}

\* The same stream goes through the handler twice: as one chunk (whole), and
\* cut into chunks at any places (parts; rest is what is still to come).
InitStream ==
    /\ watchedFolder = WatchedRoot
    /\ InitRun(JobRuns)
    /\ downloadFolder = <<>>
    /\ NoDownloads
    /\ feed \in {[text |-> t, rest |-> t, done |-> FALSE, whole |-> TextJob(type),
                  parts |-> TextJob(type)] : t \in Streams, type \in {"video", "audio"}}

\* The stream arrives as one chunk.
StdoutWhole ==
    /\ ~feed.done
    /\ feed' = [feed EXCEPT !.whole = stdoutText(@, feed.text), !.done = TRUE]
    /\ UNCHANGED <<queueVars, jobVars>>

\* The next n characters of the stream arrive as a chunk.
StdoutPart(n) ==
    /\ n \in 1..Len(feed.rest)
    /\ feed' = [feed EXCEPT !.parts = stdoutText(@, SubSeq(feed.rest, 1, n)),
                            !.rest = SubSeq(feed.rest, n + 1, Len(feed.rest))]
    /\ UNCHANGED <<queueVars, jobVars>>

NextStream ==
    \/ StdoutWhole
    \/ \E n \in 1..Len(feed.rest) : StdoutPart(n)


vars == <<queueVars, jobVars, feed>>

Spec == Init /\ [][Next]_vars

SpecPlay == InitPlay /\ [][NextPlay]_vars

SpecJobs == InitJobs /\ [][NextJobs]_vars

SpecStore == InitStore /\ [][NextStore]_vars

SpecOps == InitOps /\ [][NextOps]_vars

SpecStream == InitStream /\ [][NextStream]_vars

\* A timer that was set fires: setTimeout's callback runs after its delay.
SpecJobsFair == SpecJobs /\ \A j \in JobIds : WF_vars(TimerFire(j))


(***************************************************************************)
(* Properties of the queue.                                                *)
(***************************************************************************)
ItemAt(i) == items[queue[i]]
QueuePaths == {ItemAt(i).path : i \in 1..Len(queue)}
IndexIn(q, id) == CHOOSE i \in 1..Len(q) : q[i] = id

\* The steps of the vault's events.
RenameFileStep(oldPath, newPath) == \E sz \in cfg.sizes : VaultRenameFile(oldPath, newPath, sz)
RenameFolderStep(oldPath, newPath) ==
    \E sz \in cfg.sizes : VaultRenameFolder(oldPath, newPath, sz)
RenameStep(oldPath, newPath) ==
    RenameFileStep(oldPath, newPath) \/ RenameFolderStep(oldPath, newPath)
DeleteStep(path) == VaultDeleteFile(path) \/ VaultDeleteFolder(path)
\* The (oldPath, newPath) pairs a step can be the rename of: a file rename
\* takes a file of fs to a path that was free, a folder rename is one of
\* FolderRenames.
RenamePairs == FolderRenames \cup (fs \X (fs' \ fs))
DeletePaths == fs \cup FolderPaths

\* C1: the queue never holds two items with the same path, whatever the
\* interleaving of create events, rename events, rescans and probes.
C1_NoDuplicatePath ==
    \A i, j \in 1..Len(queue) : i # j => ItemAt(i).path # ItemAt(j).path

\* C2: at most one item of the queue has status playing.
C2_AtMostOnePlaying ==
    Cardinality({i \in 1..Len(queue) : ItemAt(i).status = "playing"}) <= 1

\* C2 witness: playMedia has promoted an item while another item of the queue
\* had been played before (its position was reported by the video element).
C2_Witness ==
    /\ last = "playMedia"
    /\ currentItem \in QueueIds(queue)
    /\ items[currentItem].status = "playing"
    /\ \E id \in QueueIds(queue) \ {currentItem} : items[id].position = 1

\* C3: when playMedia(B) runs while another item A is playing, A becomes
\* pending, or completed when A.finished, B becomes playing, and the status
\* of no other item of the queue changes.
C3_PromoteDemotesPrevious ==
    [][\A a \in QueueIds(queue) :
          ( /\ last' = "playMedia"
            /\ currentItem' # a
            /\ items[a].status = "playing" )
          => /\ items'[a].status = IF items[a].finished THEN "completed" ELSE "pending"
             /\ items'[currentItem'].status = "playing"
             /\ \A o \in QueueIds(queue) \ {a, currentItem'} :
                   items'[o].status = items[o].status]_vars

\* C3 witness: playMedia has promoted B, the previous playing item was
\* finished and is completed again, and a third item is in the queue.
C3_Witness ==
    /\ last = "playMedia"
    /\ currentItem \in QueueIds(queue)
    /\ items[currentItem].status = "playing"
    /\ Len(queue) = 3
    /\ \E a \in QueueIds(queue) \ {currentItem} :
          items[a].status = "completed" /\ items[a].finished /\ items[a].position = 1

\* C4: once no handler and no probe is pending, the tracked paths are exactly
\* the qualifying files that exist under the watched folder.
C4_Converged ==
    pending = EmptyBag => QueuePaths = {f \in fs : Qualifies(f)}

\* C5: handleRename gives every item whose path is oldPath or starts with
\* oldPath + "/" the path newPath followed by the unchanged remainder, and
\* changes the path of no other item.
C5_RenameRewritesPrefix ==
    [][\A pr \in RenamePairs :
          RenameStep(pr[1], pr[2])
          => \A id \in QueueIds(queue) \cap QueueIds(queue') :
                items'[id].path =
                    IF RenameMatches(items[id], pr[1])
                    THEN pr[2] \o SubSeq(items[id].path, Len(pr[1]) + 1,
                                         Len(items[id].path))
                    ELSE items[id].path]_vars

\* C6: after handleRename, no item whose rewritten path is neither the watched
\* folder nor under it is in the queue (it is removed, not kept as completed).
C6_MovedOutRemoved ==
    [][\A pr \in RenamePairs :
          RenameStep(pr[1], pr[2])
          => \A id \in QueueIds(queue) :
                ( /\ RenameMatches(items[id], pr[1])
                  /\ ~InsideWatched(RewritePath(items[id].path, pr[1], pr[2])) )
                => id \notin QueueIds(queue')]_vars

\* C6 witness: a tracked folder was moved out of the watched folder, and the
\* queue has lost its item.
C6_Witness ==
    /\ last = "renameFolder"
    /\ fXA \in fs
    /\ nextId > 1
    /\ queue = <<>>
    /\ \E r \in BagToSet(pending) : r.k = "call" /\ r.path = dX

\* C7: handleDelete removes exactly the items whose path is the deleted path
\* or starts with it + "/"; the other items keep their fields and their order.
C7_DeleteRemovesExactly ==
    [][\A path \in DeletePaths :
          DeleteStep(path)
          => /\ \A id \in QueueIds(queue) :
                   IF items[id].path = path \/ StartsWith(items[id].path, path \o <<"/">>)
                   THEN id \notin QueueIds(queue')
                   ELSE id \in QueueIds(queue') /\ items'[id] = items[id]
             /\ QueueIds(queue') \subseteq QueueIds(queue)
             /\ \A i, j \in 1..Len(queue') :
                   i < j => IndexIn(queue, queue'[i]) < IndexIn(queue, queue'[j])]_vars

\* C7 witness: two items were tracked, the folder of one of them was deleted,
\* and the queue holds the other one only.
C7_Witness ==
    /\ last = "deleteFolder"
    /\ fs = {fA}
    /\ nextId = 3
    /\ pending = EmptyBag
    /\ Len(queue) = 1
    /\ ItemAt(1).path = fA

\* C8: the probe of a re-discovered item changes nothing in the queue but the
\* duration and size of that item, and only when they were missing.
C8_FillOnlyMissing ==
    [][\A r \in BagToSet(pending) :
          (r.k = "fill" /\ \E d \in cfg.durs, sz \in cfg.sizes : ProbeFillDone(r, d, sz))
          => /\ queue' = queue
             /\ \A id \in QueueIds(queue) :
                   /\ items[id].duration # 0 => items'[id].duration = items[id].duration
                   /\ items[id].size # 0 => items'[id].size = items[id].size
                   /\ id # r.id => items'[id] = items[id]
                   /\ items'[id].path = items[id].path
                   /\ items'[id].name = items[id].name
                   /\ items'[id].status = items[id].status
                   /\ items'[id].finished = items[id].finished
                   /\ items'[id].position = items[id].position]_vars

\* C9: a probe that resolves after the delete event of its file adds no item
\* for that file.
C9_ProbeAfterDeleteDiscarded ==
    [][\A r \in BagToSet(pending) :
          ( /\ r.k = "new"
            /\ r.path \notin fs
            /\ \E d \in cfg.durs, sz \in cfg.sizes : ProbeNewDone(r, d, sz) )
          => r.path \notin {items'[queue'[i]].path : i \in 1..Len(queue')}]_vars

(***************************************************************************)
(* Properties of the downloads.                                            *)
(***************************************************************************)
JobTransitions ==
    { <<"downloading", "converting">>, <<"downloading", "completed">>,
      <<"downloading", "error">>, <<"downloading", "paused">>,
      <<"paused", "downloading">>, <<"converting", "completed">>,
      <<"converting", "error">> }

\* C10: every change of the status of a job of the active set is one of
\* downloading->converting, downloading->completed, downloading->error,
\* downloading->paused, paused->downloading, converting->completed and
\* converting->error.
C10_OnlyListedTransitions ==
    [][\A j \in ActiveIds(activeDownloads) \cap ActiveIds(activeDownloads') :
          jobs'[j].status # jobs[j].status
          => <<jobs[j].status, jobs'[j].status>> \in JobTransitions]_vars

\* The step is the 'close' event of process p.
ClosesProc(p) == procs[p].running /\ ~procs'[p].running

\* C11: the exit event of a process that pauseDownload killed (the job is
\* still in the active set) neither sets the job's status to error nor
\* records an error message, whatever happened since the kill.
C11_KilledExitNoError ==
    [][\A p \in ProcIds :
          ( /\ ClosesProc(p)
            /\ procs[p].killed
            /\ procs[p].job \in ActiveIds(activeDownloads) )
          => /\ jobs'[procs[p].job].status = "error" => jobs[procs[p].job].status = "error"
             /\ jobs'[procs[p].job].error = jobs[procs[p].job].error]_vars

\* C12: a pause and a resume keep the job record: the active set (its length
\* and its ids) and the job's params are unchanged, a resume that spawns
\* leaves the job downloading with no error and the new process attached, and
\* the exit with code 0 of a process of a job of the active set makes the job
\* completed.
C12_PauseResumeKeepsJob ==
    [][\A j \in JobIds :
          /\ PauseClick(j)
             => /\ activeDownloads' = activeDownloads
                /\ jobs'[j].type = jobs[j].type
          /\ \A throws \in BOOLEAN :
                ResumeClick(j, throws)
                => /\ activeDownloads' = activeDownloads
                   /\ jobs'[j].type = jobs[j].type
                   /\ ~throws => /\ jobs'[j].status = "downloading"
                                 /\ jobs'[j].error = ""
                                 /\ jobs'[j].childProcess \in ProcIds
                                 /\ procs'[jobs'[j].childProcess].job = j
          /\ \A p \in ProcIds, sz \in cfg.sizes :
                (Close(p, "0", sz) /\ procs[p].job = j /\ j \in ActiveIds(activeDownloads))
                => jobs'[j].status = "completed"]_vars

\* C12 witness: the job was paused (its killed process has not closed yet),
\* resumed, and the process of the resume has exited with code 0.
C12_Witness ==
    \E j \in ActiveIds(activeDownloads), p \in ProcIds :
        /\ procs[p].running /\ procs[p].killed /\ procs[p].job = j
        /\ jobs[j].status = "completed"
        /\ jobs[j].progress = "100%"
        /\ jobs[j].error = ""
        /\ j \in timers

\* C13: cancelDownload removes the job from the active set in the same step
\* and sends a kill to the process of its handle; a resume with the id of a
\* job that is not in the active set does nothing, and an id enters the
\* active set only as the fresh id of a new download, never by a stdout,
\* stderr, error, close or timer event.
C13_CancelRemovesForGood ==
    [][\A j \in JobIds :
          /\ CancelClick(j)
             => /\ j \notin ActiveIds(activeDownloads')
                /\ jobs[j].childProcess # 0 /\ procs[jobs[j].childProcess].running
                   => procs'[jobs[j].childProcess].killed
                /\ \A p \in ProcIds, throws \in BOOLEAN :
                      resumeDownload(Dl(activeDownloads', jobs', procs', timers'), j, p, throws)
                          = Dl(activeDownloads', jobs', procs', timers')
          /\ (j \notin ActiveIds(activeDownloads) /\ j \in ActiveIds(activeDownloads'))
             => /\ j \in FreeJobs
                /\ \E type \in {"video", "audio"}, throws \in BOOLEAN :
                      DownloadVideos(type, throws)]_vars

\* C13 witness: a downloading job was cancelled; its process, which was sent
\* the kill, has not closed yet, and the job is not in the active set.
C13_Witness ==
    \E j \in JobIds, p \in ProcIds :
        /\ j \notin ActiveIds(activeDownloads)
        /\ procs[p].running /\ procs[p].killed /\ procs[p].job = j
        /\ jobs[j].status = "downloading"
        /\ jobs[j].progress = "50.0%"

\* C14: a stderr chunk with a fatal signature leaves the job with status
\* error and the error "Update yt-dlp!" in the step that handles it, whatever
\* the job's status was and whatever stdout lines were handled before.
C14_FatalStderrSetsError ==
    [][\A p \in ProcIds :
          Stderr(p, TRUE)
          => /\ jobs'[procs[p].job].status = "error"
             /\ jobs'[procs[p].job].error = "Update yt-dlp!"]_vars

\* C14 witness: a job whose process had announced the post-processing stage
\* (progress 95%) is in error with the fixed message, its process still
\* running.
C14_Witness ==
    \E j \in ActiveIds(activeDownloads), p \in ProcIds :
        /\ procs[p].running /\ ~procs[p].killed /\ procs[p].job = j
        /\ jobs[j].status = "error"
        /\ jobs[j].error = "Update yt-dlp!"
        /\ jobs[j].progress = "95%"

\* C15: a job of the active set whose status is error stays in the active
\* set with status error and the same error message in every step but a
\* cancel of that job (the list view offers no resume for a job in error).
C15_ErrorSticks ==
    [][\A j \in ActiveIds(activeDownloads) :
          (jobs[j].status = "error" /\ ~CancelClick(j))
          => /\ j \in ActiveIds(activeDownloads')
             /\ jobs'[j].status = "error"
             /\ jobs'[j].error = jobs[j].error]_vars

\* C16: a job of the active set has an error message only if its status is
\* error.
C16_ErrorOnlyInError ==
    \A j \in ActiveIds(activeDownloads) :
        jobs[j].error # "" => jobs[j].status = "error"

\* C17: a job of the active set whose status is paused, completed or error
\* has no process handle.
C17_NoHandleWhenStopped ==
    \A j \in ActiveIds(activeDownloads) :
        jobs[j].status \in {"paused", "completed", "error"} => jobs[j].childProcess = 0

\* C18: the close event with code 0 of a process of a job of the active set
\* leaves the job completed with progress 100%, and the step starts the
\* rescan of the watched folder exactly when the download folder, or the
\* watched folder when no download folder is set, is the watched folder.
C18_ExitZeroCompletes ==
    [][\A p \in ProcIds, sz \in cfg.sizes :
          Close(p, "0", sz)
          => /\ procs[p].job \in ActiveIds(activeDownloads)
                => /\ jobs'[procs[p].job].status = "completed"
                   /\ jobs'[procs[p].job].progress = "100%"
             /\ last' = "scan"
                <=> (IF downloadFolder # <<>> THEN downloadFolder ELSE watchedFolder)
                        = watchedFolder]_vars

\* C18 witness: with no download folder set, a process has exited with code
\* 0: the job is completed at 100% and the rescan was started.
C18_Witness ==
    /\ last = "scan"
    /\ downloadFolder = <<>>
    /\ \E j \in ActiveIds(activeDownloads) :
          /\ jobs[j].status = "completed"
          /\ jobs[j].progress = "100%"
          /\ jobs[j].childProcess = 0

\* C19: the close event with a nonzero exit code of a process of a job of the
\* active set whose status is not paused leaves the job in error, its error
\* message naming that code.
C19_NonzeroExitSetsError ==
    [][\A p \in ProcIds, code \in {"1", "2"}, sz \in cfg.sizes :
          ( /\ Close(p, code, sz)
            /\ procs[p].job \in ActiveIds(activeDownloads)
            /\ jobs[procs[p].job].status # "paused" )
          => /\ jobs'[procs[p].job].status = "error"
             /\ jobs'[procs[p].job].error = "Exit code " \o code]_vars

\* C19 witness: a job that had reached the post-processing stage is in error
\* with the exit code 2 of its process, which has closed.
C19_Witness ==
    \E j \in ActiveIds(activeDownloads) :
        /\ jobs[j].status = "error"
        /\ jobs[j].error = "Exit code 2"
        /\ jobs[j].progress = "95%"
        /\ jobs[j].childProcess = 0
        /\ \A p \in ProcIds : ~procs[p].running

\* C20: a job of the active set that is completed is eventually out of the
\* active set, by the timer alone: the only fairness is the timer's.
C20_CompletedEventuallyRemoved ==
    \A j \in JobIds :
        (j \in ActiveIds(activeDownloads) /\ jobs[j].status = "completed")
            ~> (j \notin ActiveIds(activeDownloads))

\* C20 witness: the timer of a completed job has fired, and the active set is
\* empty with no process left.
C20_Witness ==
    /\ last = "timer"
    /\ activeDownloads = <<>>
    /\ timers = {}
    /\ \A p \in ProcIds : ~procs[p].running

\* C21: a job leaves the active set while its status is error, paused,
\* downloading or converting only by cancelDownload; the timer removes only a
\* job whose status is completed when it is removed.
C21_RemovalOnlyCancelOrCompleted ==
    [][\A j \in JobIds :
          (j \in ActiveIds(activeDownloads) /\ j \notin ActiveIds(activeDownloads'))
          => \/ CancelClick(j)
             \/ TimerFire(j) /\ jobs[j].status = "completed"]_vars

\* C25: updateStatus(id, completed) on a tracked id leaves the item with
\* finished = true, and no other operation takes the finished flag of an
\* item from false to true.
C25_FinishedOnlyByUpdateStatus ==
    [][/\ ( /\ OnEnded \/ \E t \in Positions : OnTimeUpdate(t, TRUE)
            /\ currentItem \in QueueIds(queue)
            /\ items[currentItem].status # "completed" )
          => items'[currentItem].finished
       /\ \A id \in Ids :
             ( /\ items[id].status # "none"
               /\ ~items[id].finished
               /\ items'[id].finished )
             => /\ currentItem = id
                /\ OnEnded \/ \E t \in Positions : OnTimeUpdate(t, TRUE)]_vars

\* C26: once an item's finished flag is true it stays true under every
\* operation, while the item is tracked; setMediaItemAsUnread resets status
\* and position and leaves finished = true.
C26_FinishedSticky ==
    [][\A id \in QueueIds(queue) \cap QueueIds(queue') :
          items[id].finished => items'[id].finished]_vars

(***************************************************************************)
(* Properties of reorderItem and sortQueue.                                *)
(***************************************************************************)
OutOfRange(o, n) == o < 0 \/ o >= Len(queue) \/ n < 0 \/ n >= Len(queue)

\* C22: reorderItem(oldIndex, newIndex) with an index outside 0..len-1
\* leaves the queue and its items as they are.
C22_ReorderOutOfRangeNoOp ==
    [][\A o \in ReorderIndices, n \in ReorderIndices :
          (ReorderItem(o, n) /\ OutOfRange(o, n))
          => /\ queue' = queue
             /\ items' = items
             /\ saved' = saved]_vars

\* C22 witness: on a queue of three items that a drag had reordered before,
\* reorderItem has returned without a saveData.
C22_Witness ==
    /\ last = "reorder"
    /\ flushed = 0
    /\ queue = <<2, 3, 1>>

\* C23: reorderItem(oldIndex, newIndex) with both indices in range puts the
\* item that was at oldIndex at newIndex, keeps the relative order of the
\* other items, and changes no field of any item.
C23_ReorderMovesOne ==
    [][\A o \in ReorderIndices, n \in ReorderIndices :
          (ReorderItem(o, n) /\ ~OutOfRange(o, n))
          => LET moved == queue[o + 1]
                 Other(x) == x # moved
             IN  /\ Len(queue') = Len(queue)
                 /\ queue'[n + 1] = moved
                 /\ SelectSeq(queue', Other) = SelectSeq(queue, Other)
                 /\ items' = items]_vars

\* C23 witness: reorder(0, 2) on [X, Y, Z] has given [Y, Z, X].
C23_Witness ==
    /\ last = "reorder"
    /\ flushed = 1
    /\ queue = <<2, 3, 1>>
    /\ items[1].path = fBig /\ items[2].path = fA /\ items[3].path = fb

\* The keys of the sort as the specification words them.
KeyLess(a, b, by) ==
    CASE by = "type" -> StrLess(ToLowerCase(FileExtension(a.path)),
                                ToLowerCase(FileExtension(b.path)))
      [] by = "size" -> a.size < b.size
      [] OTHER -> StrLess(ToLowerCase(a.name), ToLowerCase(b.name))

\* C24: sortQueue(key, dir) gives a permutation of the queue that is
\* non-decreasing in the key for asc and non-increasing for desc; the key is
\* the name without case, the lowercased extension, or the size (0 when
\* unknown).
C24_SortOrdersByKey ==
    [][\A by \in {"name", "type", "size"}, order \in {"asc", "desc"} :
          SortQueue(by, order)
          => /\ Len(queue') = Len(queue)
             /\ QueueIds(queue') = QueueIds(queue)
             /\ items' = items
             /\ \A i, j \in 1..Len(queue') :
                   i < j => IF order = "asc"
                            THEN ~KeyLess(items[queue'[j]], items[queue'[i]], by)
                            ELSE ~KeyLess(items[queue'[i]], items[queue'[j]], by)]_vars

(***************************************************************************)
(* Properties of saveData.                                                 *)
(***************************************************************************)
\* The files a scan of the watched folder finds that the queue does not hold.
Untracked == {f \in FilesUnder(fs, watchedFolder) : Qualifies(f) /\ f \notin QueuePaths}

\* The step is the return of a handleFileChange call of scan r.batch.
ScanCallReturns(r) ==
    /\ r.batch # 0
    /\ \E d \in cfg.durs, sz \in cfg.sizes : ProbeNewDone(r, d, sz) \/ ProbeFillDone(r, d, sz)

\* C27: a scan of the watched folder calls handleFileChange for every file
\* under it, none of these calls saves, and the scan saves once, when the
\* last of its calls has returned.
C27_ScanSavesOnceAtEnd ==
    [][/\ (\E sz \in cfg.sizes : ScanFolder(sz))
          => LET new == LiveBatches(pending') \ LiveBatches(pending)
             IN  /\ \A f \in Untracked :
                       \E r \in BagToSet(pending') :
                          r.k = "new" /\ r.path = f /\ r.batch \in new
                 /\ IF new = {}
                    THEN flushed' = 1 /\ saved' = Snapshot(items', queue')
                    ELSE flushed' = 0 /\ saved' = saved
       /\ \A r \in BagToSet(pending) :
             ScanCallReturns(r)
             => IF r.batch \in LiveBatches(pending')
                THEN flushed' = 0 /\ saved' = saved
                ELSE flushed' = 1 /\ saved' = Snapshot(items', queue')]_vars

\* C27 witness: the first scan of a folder with two files has pushed both
\* items, its last call has returned, and the document holds both.
C27_Witness ==
    /\ last = "probeNew"
    /\ flushed = 1
    /\ pending = EmptyBag
    /\ nextId = 3
    /\ QueuePaths = {fA, fb}
    /\ saved = Snapshot(items, queue)

\* C28: outside a scan, every handler that changes the queue or a field of
\* one of its items calls saveData after its last change: whenever no call
\* of a scan is pending, the document saveData wrote last holds the queue
\* as it is.
C28_MutationsAreSaved ==
    LiveBatches(pending) = {} => saved = Snapshot(items, queue)

\* C29: an operation given an id that is not in its collection changes
\* nothing.  When the view's current item is not in the queue, the
\* updatePosition of onpause and the updateStatus of ontimeupdate and of
\* onended leave the queue and its items as they are and save nothing;
\* pauseDownload, resumeDownload and cancelDownload with an id that is not in
\* activeDownloads leave the active set, the jobs, the processes and the
\* timers as they are.
C29_UnknownIdNoOp ==
    [][/\ ( /\ currentItem \notin QueueIds(queue)
            /\ \/ \E t \in Positions : OnPause(t)
               \/ \E t \in Positions : OnTimeUpdate(t, TRUE)
               \/ OnEnded )
          => /\ queue' = queue
             /\ \A id \in QueueIds(queue) : items'[id] = items[id]
             /\ saved' = saved
             /\ flushed' = 0
       /\ UnknownJob => UNCHANGED jobVars]_vars

\* A job has left the active set while a process of it is still running, and
\* the last call was a resumeDownload with its id.
C29_Witness ==
    /\ last = "resumeUnknown"
    /\ \E p \in ProcIds : /\ procs[p].running
                          /\ procs[p].job \notin ActiveIds(activeDownloads)

\* The first pending item behind the view's current item, 0 when there is
\* none.
PendingBehind ==
    LET own == {i \in 1..Len(queue) : queue[i] = currentItem}
        after == {i \in 1..Len(queue) :
                     /\ \E c \in own : i > c
                     /\ items[queue[i]].status = "pending"}
    IN  IF after = {} THEN 0 ELSE queue[CHOOSE i \in after : \A j \in after : i <= j]

\* C30: when the media of the current item ends and a pending item follows
\* it in the queue, the playback of the first such item starts: onended
\* either calls playMedia for it or is on its way to playNextUnread, also
\* when the item was marked completed at 95% before.
C30_EndedPlaysNext ==
    [][OnEnded /\ PendingBehind # 0
          => \E r \in BagToSet(pending') :
                 \/ r.k = "ended"
                 \/ r.k = "play" /\ r.id = PendingBehind]_vars

\* A step of cleanConsumedMedia: the call up to its first await, or a
\* continuation of it; CleanEnds when the step runs the filter and saveData.
CleanStep ==
    \/ CleanConsumedMedia
    \/ \E r \in BagToSet(pending) : CleanResume(r)

CleanRecs(P) == {r \in BagToSet(P) : r.k = "clean"}

NoneCompleted(it, q) == \A i \in 1..Len(q) : it[q[i]].status # "completed"

\* C31: cleanConsumedMedia removes the completed items and nothing else.  In
\* every step of it an item of the queue that is not completed stays in the
\* queue with the fields it has, the queue that is left is in the order it
\* had, and when the call has run to its end no item of the queue is
\* completed; a call that finds no completed item leaves the queue, the
\* items and the saved document as they are and saves nothing.
C31_CleanRemovesCompletedOnly ==
    [][CleanStep =>
          /\ \A id \in QueueIds(queue) :
                 items[id].status # "completed"
                     => id \in QueueIds(queue') /\ items'[id] = items[id]
          /\ queue' = SelectSeq(queue, LAMBDA id : id \in QueueIds(queue'))
          /\ CleanRecs(pending') = {} => NoneCompleted(items', queue')
          /\ CleanConsumedMedia /\ NoneCompleted(items, queue)
                 => UNCHANGED <<queue, items, saved, pending>> /\ flushed' = 0]_vars

\* A path with a file name or a folder name that starts with ".".
HasDotSegment(p) == StartsWith(p, <<".">>) \/ Includes(p, <<"/", ".">>)

\* C32: discovery adds an item only for a media file under the watched
\* folder.  Whenever an id enters the queue, a watched folder is set, the
\* item's path lies under watchedFolder + "/", its extension is a supported
\* one and no segment of it starts with "."; the item is pending at position
\* 0, it is the last of the queue, and the items that were in the queue are
\* as they were, in the order they had.
C32_DiscoveryAddsOnlyWatchedMedia ==
    [][\A id \in QueueIds(queue') \ QueueIds(queue) :
          /\ watchedFolder # <<>>
          /\ StartsWith(items'[id].path, watchedFolder \o <<"/">>)
          /\ ToLowerCase(FileExtension(items'[id].path)) \in validExtensions
          /\ ~HasDotSegment(items'[id].path)
          /\ items'[id].status = "pending"
          /\ items'[id].position = 0
          /\ queue' = Append(queue, id)
          /\ \A x \in QueueIds(queue) : items'[x] = items[x]]_vars

\* The item's place in the queue, 0 when it is not in it.
IndexOfId(q, id) == IF id \in QueueIds(q) THEN CHOOSE i \in 1..Len(q) : q[i] = id ELSE 0

\* The number of handleFileChange calls that wait for the probe of a file
\* that was not in the queue.
NewProbes(P) == SumCopies(P, {r \in BagToSet(P) : r.k = "new"})

\* C33: a rename that keeps an item inside the watched folder keeps the item:
\* in the step of the rename the item stays at its index with its status,
\* finished, position and duration, the items that do not match the old path
\* stay in the queue unchanged, and the handleFileChange that handleRename ends with finds
\* the item and starts no probe for a new one.
C33_RenameKeepsItem ==
    [][/\ \A pr \in RenamePairs :
             RenameStep(pr[1], pr[2])
             => \A id \in QueueIds(queue) :
                   IF RenameMatches(items[id], pr[1])
                   THEN InsideWatched(pr[2] \o SubSeq(items[id].path, Len(pr[1]) + 1,
                                                      Len(items[id].path)))
                        => /\ IndexOfId(queue', id) = IndexOfId(queue, id)
                           /\ items'[id].status = items[id].status
                           /\ items'[id].finished = items[id].finished
                           /\ items'[id].position = items[id].position
                           /\ items'[id].duration = items[id].duration
                   ELSE /\ id \in QueueIds(queue')
                        /\ items'[id] = items[id]
       /\ \A r \in BagToSet(pending) :
             /\ \E sz \in cfg.sizes : RenameResume(r, sz)
             /\ InsideWatched(r.path)
             => NewProbes(pending') <= NewProbes(pending)]_vars

HasPostLine(chunk) == \E k \in 1..Len(chunk) : chunk[k].post

\* C34: once a stdout line that names a post-processing stage has been
\* handled, the job is converting at 95%, and the stdout handler leaves it
\* so whatever lines follow, in the same chunk or in a later one.
C34_ConvertingPinned ==
    [][\A p \in ProcIds, chunk \in Chunks :
          /\ Stdout(p, chunk)
          /\ \/ HasPostLine(chunk)
             \/ /\ jobs[procs[p].job].status = "converting"
                /\ jobs[procs[p].job].progress = "95%"
          => /\ jobs'[procs[p].job].status = "converting"
             /\ jobs'[procs[p].job].progress = "95%"]_vars

\* C35: the job after a stdout stream does not depend on how the stream was
\* cut into chunks: once the whole stream has gone through the handler, as
\* one chunk and cut into chunks, the two jobs have the same progress,
\* speed, eta, name and status.
C35_ChunkingIndependent ==
    feed.done /\ feed.rest = <<>> => feed.parts = feed.whole

\* C36: a stderr chunk that matches no fatal signature changes nothing in the
\* job (status, error, progress, speed, eta, name and process handle) and
\* nothing in the active set, the processes or the timers.
C36_PlainStderrChangesNothing ==
    [][\A p \in ProcIds :
          Stderr(p, FALSE)
          => /\ jobs' = jobs
             /\ activeDownloads' = activeDownloads
             /\ procs' = procs
             /\ timers' = timers]_vars

\* C36 witness: the handler of a stderr chunk ran last on a job whose process
\* had announced the post-processing stage, and the job is still converting
\* at 95% with no error and its process attached.
C36_Witness ==
    \E j \in ActiveIds(activeDownloads), p \in ProcIds :
        /\ last = "stderr"
        /\ procs[p].running /\ ~procs[p].killed /\ procs[p].job = j
        /\ jobs[j].childProcess = p
        /\ jobs[j].status = "converting"
        /\ jobs[j].progress = "95%"
        /\ jobs[j].error = ""

\* C37: every item of the queue whose status is completed has finished set,
\* in every state reached from a queue that holds no completed item (the
\* empty queue, or the pending items a scan of the folder has added to it).
C37_CompletedIsFinished ==
    \A id \in QueueIds(queue) : items[id].status = "completed" => items[id].finished

\* C37 witness: an item of the queue is completed and finished while another
\* item, which playMedia started last, is playing.
C37_Witness ==
    \E id \in QueueIds(queue), other \in QueueIds(queue) :
        /\ id # other
        /\ items[id].status = "completed"
        /\ items[id].finished
        /\ items[other].status = "playing"
        /\ currentItem = other
        /\ last = "playMedia"

\* C38: after a resume has spawned a new process for a job, the handle of the
\* job refers to that process until its own exit event: the late exit event
\* of the earlier process, which the pause killed, neither clears the handle
\* nor changes the status of the job.
C38_LateExitKeepsHandle ==
    [][\A p \in ProcIds :
          ( /\ ClosesProc(p)
            /\ procs[p].killed
            /\ procs[p].job \in ActiveIds(activeDownloads)
            /\ jobs[procs[p].job].childProcess \in ProcIds \ {p}
            /\ procs[jobs[procs[p].job].childProcess].running )
          => /\ jobs'[procs[p].job].childProcess = jobs[procs[p].job].childProcess
             /\ jobs'[procs[p].job].status = jobs[procs[p].job].status]_vars

\* C39: when a job leaves the active set (by a cancel or by its timer), every
\* process spawned for the job has exited or has been sent a kill: no
\* process keeps running unkilled for a job that has left the active set.
C39_NoProcessOutlivesJob ==
    [][\A j \in JobIds :
          (j \in ActiveIds(activeDownloads) /\ j \notin ActiveIds(activeDownloads'))
          => \A p \in ProcIds :
                (procs'[p].running /\ procs'[p].job = j) => procs'[p].killed]_vars

\* C40: no job is left stuck: when the exit event of the process of a job's
\* handle is handled (exit code 0, a nonzero code, or a signal with no code),
\* no other process of the job runs and the job stays in the active set,
\* the job's status is completed, error or paused afterwards, never
\* downloading or converting.
C40_ExitSettlesJob ==
    [][\A p \in ProcIds :
          ( /\ ClosesProc(p)
            /\ jobs[procs[p].job].childProcess = p
            /\ \A q \in ProcIds \ {p} : ~(procs[q].running /\ procs[q].job = procs[p].job)
            /\ procs[p].job \in ActiveIds(activeDownloads') )
          => jobs'[procs[p].job].status \in {"completed", "error", "paused"}]_vars

====
